---- MODULE Spec2Model ----
(***************************************************************************)
(* A model of the detection layer of ptk-admin-panel                       *)
(* (src/src/ptk_admin_panel/util_funcs/*.py and scanner.py): the SSH       *)
(* detector with its process-wide port cache, the connection inventory,    *)
(* the zombie scan, the git repository scan with its porcelain parser, the *)
(* tmux detector, the recent-files walk, the duration formatter and the    *)
(* listening-server list.                                                  *)
(*                                                                         *)
(* Text is modelled as sequences of one-character strings, so that the     *)
(* string operations of the source (strip, split, find, int) are computed  *)
(* rather than assumed.  Python's None is the empty set and a present      *)
(* value x is {x} (an Optional).                                           *)
(***************************************************************************)
EXTENDS Integers, Sequences, FiniteSets, TLC

VARIABLES
    \* ---- git status parser (git_detect.py) ----
    status_output,  \* the text handed to _parse_git_status
    gitHeader,      \* the header line the text was built from (<<>>: none)
    gitEntries,     \* the status lines the text was built from
    gitPc,          \* "ready" | "returned" | "raised"
    gitStatus,      \* the GitStatus returned (meaningful when gitPc = "returned")
    \* ---- the operating system's process table (psutil) ----
    procState,      \* pid -> "running" | "zombie" | "gone"
    \* ---- zombie scan (zombie.py) ----
    zPc,            \* "idle" | "iter" | "status" | "info" | "done" | "raised"
    zPids,          \* the pids process_iter enumerates, in its order
    zIdx,           \* position of the loop in zPids
    zombies,        \* the list get_zombie_processes builds
    zLog,           \* per process found zombie at the status check, in scan order:
                    \* [pid, read], read the outcome of its metadata read
    \* ---- the operating system's sockets ----
    netConns,       \* psutil.net_connections(kind="inet"): the connection table
    service,        \* port -> what a TCP connect to it answers (a response kind)
    \* ---- SSH detector (ssh_detector.py) ----
    ModuleCache,    \* ModuleCache.ssh_port, the process-wide cached port
    pc,             \* per thread: the place of its get_ssh_status call
    processes,      \* per thread: list(psutil.process_iter()) of _is_sshd_running
    pIdx,           \* per thread: position of _is_sshd_running's loop
    is_active,      \* per thread: local is_active
    pid,            \* per thread: local pid
    connections,    \* per thread: local connections
    cIdx,           \* per thread: position of the probe loop in connections
    ports,          \* per thread: local ports of _detect_ssh_port_unpriveleged
    warned,         \* per thread: the WARNING line was printed
    ssh_port,       \* per thread: local ssh_port
    sshStatus,      \* per thread: the SSHStatus returned
    probed,         \* per thread: the probes of this call, [conn, resp], in order
    priorPort,      \* per thread: the port discovered before this call started
    steady,         \* per thread: ports answering with a banner since the call started
    discovered,     \* the first non-null port a call wrote to the cache
    sawNone,        \* some call has returned with port None
    \* ---- the directory tree under the scan root ----
    fsKind,         \* directory -> what its entry ".git" is: "dir", "file" or "none"
    fsAccess,       \* directory -> "ok", or "denied": its entries cannot be read
    \* ---- git_detect._find_git_repos ----
    fPc,            \* the place of the call
    fTodo,          \* directories rglob has still to visit
    item,           \* the path rglob has just yielded (the directory of the .git)
    git_repos,      \* local git_repos
    permErr,        \* a PermissionError was raised during this walk
    \* ---- git_detect.scan_git_repos and _get_git_status ----
    repos,          \* local repos: what _find_git_repos returned
    sPc,            \* the place of the call
    sIdx,           \* position of the comprehension in repos
    gitBranch,      \* local branch of the running _get_git_status
    results,        \* the GitStatus objects collected so far
    cmdLog,         \* per repository handled: how its two commands ended
    \* ---- tmux detector (tmux.py) ----
    installed_cache,\* functools.cache of _is_tmux_installed: None, or the cached result
    whichRuns,      \* how often `which tmux` has been run in this process
    firstOutcome,   \* how the first run of `which tmux` ended
    tCalls,         \* get_status calls started so far
    tPc,            \* the place of the get_status call
    tExc,           \* "none", or where the call raised
    is_installed,   \* local is_installed
    is_running,     \* local is_running
    listRuns,       \* the list-sessions commands of _is_tmux_running in this call
    tmuxCmds,       \* tmux control commands run in this call
    procScans,      \* process-table scans made in this call
    sessLines,      \* output.split("\n") of _get_sessions
    lIdx,           \* position of the loop of _get_sessions in sessLines
    sessions,       \* local sessions
    clientLog,      \* a client listing read by itself: its output and the result
    listedCounts,   \* the lines with 6 fields that the client listings of this call
                    \* held: [all] the unfiltered one, [sess] one per session built
    total_clients,  \* local total_clients
    server_pid,     \* local server_pid
    tmuxStatus,     \* the TmuxStatus returned
    \* ---- common.format_timedelta ----
    time_delta,     \* the timedelta given: [days, seconds]
    incl_seconds,   \* the flag given
    fmtPc,          \* "idle" | "ready" | "returned"
    fmtResult,      \* the text returned
    \* ---- get_recent.get_recent_files ----
    mtimes,         \* file -> its st_mtime
    limit,          \* the limit given
    exclude_hidden, \* the flag given
    rPc,            \* "idle" | "walk" | "files" | "done"
    walkTodo,       \* the directories os.walk has still to list, next first
    walkRoot,       \* local root: the directory os.walk has yielded
    filenames,      \* the rest of local filenames of that directory
    files,          \* local files; after the return, the list returned
    statTried,      \* the files os.stat was called on
    statFailed,     \* the files whose os.stat raised
    listed,         \* the directories os.walk has listed
    \* ---- ssh_detector._get_ssh_connections called by itself ----
    scPort,         \* the ssh_port given
    scConns,        \* the conns given
    scPc,           \* "idle" | "ready" | "returned"
    ssh_conns,      \* the dict returned
    \* ---- tmux._get_tmux_server_pid called by itself ----
    procTable,      \* what process_iter yields: per process its name and cmdline
    spPc,           \* "idle" | "ready" | "returned"
    found_pid,      \* the pid returned, or None
    \* ---- scanner.build_server_list ----
    ignore_pids,    \* the argument: None, or a list of pids
    sockets,        \* what psutil.net_connections(kind="tcp") returns
    bPc,            \* "idle" | "gather" | "loop" | "done"
    bConns,         \* local conns: the (ip, port, pid) of the listening sockets
    bIdx,           \* position of the loop in conns
    bSeen,          \* local seen, its ServerInfo values in insertion order
    servers         \* the list returned

gitVars == <<status_output, gitHeader, gitEntries, gitPc, gitStatus>>
procVars == <<procState>>
zombieVars == <<zPc, zPids, zIdx, zombies, zLog>>
netVars == <<netConns, service>>
sshLocals == <<pc, processes, pIdx, is_active, pid, connections, cIdx, ports, warned,
               ssh_port, sshStatus, probed, priorPort, steady>>
sshVars == <<ModuleCache, sshLocals, discovered, sawNone>>

fsVars == <<fsKind, fsAccess>>
findVars == <<fPc, fTodo, item, git_repos, permErr>>
scanVars == <<repos, sPc, sIdx, gitBranch, results, cmdLog>>
repoVars == <<fsVars, findVars, scanVars>>

tmuxLocals == <<is_installed, is_running, listRuns, tmuxCmds, procScans, sessLines, lIdx,
                sessions, clientLog, listedCounts, total_clients, server_pid, tmuxStatus>>
tmuxVars == <<installed_cache, whichRuns, firstOutcome, tCalls, tPc, tExc, tmuxLocals>>

fmtVars == <<time_delta, incl_seconds, fmtPc, fmtResult>>
recentVars == <<mtimes, limit, exclude_hidden, rPc, walkTodo, walkRoot, filenames, files,
                statTried, statFailed, listed>>
countVars == <<scPort, scConns, scPc, ssh_conns>>
pidVars == <<procTable, spPc, found_pid>>
buildVars == <<ignore_pids, sockets, bPc, bConns, bIdx, bSeen, servers>>
utilVars == <<fmtVars, recentVars, countVars, pidVars, buildVars>>

vars == <<gitVars, procVars, zombieVars, netVars, sshVars, repoVars, tmuxVars, utilVars>>

\* ------------------------------------------------------------------ bounds

MaxEntries == 2     \* status lines after the header in a porcelain text
MaxProcs == 3       \* pids of the process table
MaxConns == 3       \* rows of the connection table
NumThreads == 2     \* request threads of the web server
MaxRepos == 3       \* repositories a scan is given
MaxLines == 2       \* lines of a tmux listing
MaxCalls == 2       \* get_status calls of a process
MaxLimit == 3       \* the limit a get_recent_files call is given
MaxSockets == 3     \* rows of the socket table build_server_list reads

\* ------------------------------------------------------------ Optional

None == {}
Some(x) == {x}
Get(o) == CHOOSE x \in o : TRUE

\* Python truthiness of an Optional[int]: None and 0 are falsy.
Truthy(o) == o # None /\ 0 \notin o

\* ------------------------------------------------------- str operations

Whitespace == {" ", "\n", "\t", "\r"}

RECURSIVE LStrip(_)
LStrip(s) == IF s # <<>> /\ Head(s) \in Whitespace THEN LStrip(Tail(s)) ELSE s

RECURSIVE RStripChars(_, _)
RStripChars(s, chars) ==
    IF s # <<>> /\ s[Len(s)] \in chars
    THEN RStripChars(SubSeq(s, 1, Len(s) - 1), chars)
    ELSE s

\* str.strip()
Strip(s) == RStripChars(LStrip(s), Whitespace)

\* str.startswith(prefix)
StartsWith(s, prefix) ==
    Len(s) >= Len(prefix) /\ SubSeq(s, 1, Len(prefix)) = prefix

\* str.find(sub), 1-based; 0 when sub does not occur (Python's -1).
Find(s, sub) ==
    LET hits == {i \in 1..(Len(s) - Len(sub) + 1) :
                    SubSeq(s, i, i + Len(sub) - 1) = sub}
    IN IF hits = {} THEN 0 ELSE CHOOSE i \in hits : \A j \in hits : i <= j

\* sub in s
Contains(s, sub) == Find(s, sub) # 0

\* str.split(sep): the list of parts, always at least one.
RECURSIVE Split(_, _)
Split(s, sep) ==
    LET i == Find(s, sep)
    IN IF i = 0
       THEN <<s>>
       ELSE <<SubSeq(s, 1, i - 1)>> \o Split(SubSeq(s, i + Len(sep), Len(s)), sep)

\* str.splitlines()[0] of a non-empty string: the text before the first line break.
FirstLine(s) ==
    LET brk == {i \in 1..Len(s) : s[i] \in {"\n", "\r"}}
    IN IF brk = {} THEN s
       ELSE SubSeq(s, 1, (CHOOSE i \in brk : \A j \in brk : i <= j) - 1)

\* sep.join(parts)
RECURSIVE Join(_, _)
Join(parts, sep) ==
    IF parts = <<>> THEN <<>>
    ELSE IF Len(parts) = 1 THEN parts[1]
    ELSE parts[1] \o sep \o Join(Tail(parts), sep)

DigitChars == <<"0", "1", "2", "3", "4", "5", "6", "7", "8", "9">>
DigitSet == {DigitChars[i] : i \in 1..10}
DigitVal(c) == (CHOOSE i \in 1..10 : DigitChars[i] = c) - 1

\* The digits of int(s)'s argument once surrounding whitespace and a sign are removed.
IntBody(s) ==
    LET t == Strip(s)
    IN IF t # <<>> /\ t[1] \in {"+", "-"} THEN Tail(t) ELSE t

\* Whether int(s) succeeds (otherwise it raises ValueError).
IsInt(s) ==
    LET b == IntBody(s)
    IN b # <<>> /\ \A i \in 1..Len(b) : b[i] \in DigitSet

RECURSIVE DigitsValue(_)
DigitsValue(b) ==
    IF b = <<>> THEN 0
    ELSE 10 * DigitsValue(SubSeq(b, 1, Len(b) - 1)) + DigitVal(b[Len(b)])

\* int(s), for s with IsInt(s)
IntOf(s) ==
    LET t == Strip(s)
    IN IF t[1] = "-" THEN 0 - DigitsValue(IntBody(s)) ELSE DigitsValue(IntBody(s))

\* The characters of addresses and file names, in code-point order.
CharOrder == <<".", "0", "1", "2", "3", "4", "5", "6", "7", "8", "9", ":", "a", "b", "c">>
CharCode(c) == CHOOSE i \in 1..Len(CharOrder) : CharOrder[i] = c

\* a < b for Python strings.
RECURSIVE StrLess(_, _)
StrLess(a, b) ==
    IF b = <<>> THEN FALSE
    ELSE IF a = <<>> THEN TRUE
    ELSE IF Head(a) = Head(b) THEN StrLess(Tail(a), Tail(b))
    ELSE CharCode(Head(a)) < CharCode(Head(b))

\* ----------------------------------------------- common.format_timedelta

\* str(n) of an integer, as an f-string writes it.
RECURSIVE NatText(_)
NatText(n) ==
    IF n < 10 THEN <<DigitChars[n + 1]>>
    ELSE NatText(n \div 10) \o <<DigitChars[(n % 10) + 1]>>

IntText(n) == IF n < 0 THEN <<"-">> \o NatText(0 - n) ELSE NatText(n)

DayUnit == <<" ", "d", "a", "y">>
HourUnit == <<" ", "h", "o", "u", "r">>
MinuteUnit == <<" ", "m", "i", "n", "u", "t", "e">>
SecondUnit == <<" ", "s", "e", "c", "o", "n", "d">>
CommaSpace == <<",", " ">>

\* f"{value} unit{'s' if value != 1 else ''}"
UnitPart(value, unit) ==
    IntText(value) \o unit \o (IF value # 1 THEN <<"s">> ELSE <<>>)

\* timedelta(seconds=total): days and seconds as timedelta normalises them
\* (0 <= seconds < 86400).
TimedeltaOf(total) == [days |-> total \div 86400, seconds |-> total % 86400]

\* Lines 23-29 with the plural suffix on every unit.
FormatTimedeltaAlwaysPlural(td, incl) ==
    LET days == td.days
        hours == td.seconds \div 3600
        minutes == (td.seconds % 3600) \div 60
        seconds == td.seconds % 60
        Plural(value, unit) == IntText(value) \o unit \o <<"s">>
        p1 == IF days > 0 THEN <<Plural(days, DayUnit)>> ELSE <<>>
        p2 == IF hours > 0 \/ days > 0 THEN Append(p1, Plural(hours, HourUnit)) ELSE p1
        p3 == IF minutes > 0 \/ hours > 0 \/ days > 0
              THEN Append(p2, Plural(minutes, MinuteUnit)) ELSE p2
        p4 == IF incl THEN Append(p3, Plural(seconds, SecondUnit)) ELSE p3
    IN Join(p4, CommaSpace)

\* Lines 26-27 with the minutes part appended whatever the larger units are.
FormatTimedeltaAlwaysMinutes(td, incl) ==
    LET days == td.days
        hours == td.seconds \div 3600
        minutes == (td.seconds % 3600) \div 60
        seconds == td.seconds % 60
        p1 == IF days > 0 THEN <<UnitPart(days, DayUnit)>> ELSE <<>>
        p2 == IF hours > 0 \/ days > 0 THEN Append(p1, UnitPart(hours, HourUnit)) ELSE p1
        p3 == Append(p2, UnitPart(minutes, MinuteUnit))
        p4 == IF incl THEN Append(p3, UnitPart(seconds, SecondUnit)) ELSE p3
    IN Join(p4, CommaSpace)

\* Lines 13-31.
FormatTimedelta(td, incl) ==
    LET days == td.days
        hours == td.seconds \div 3600
        minutes == (td.seconds % 3600) \div 60
        seconds == td.seconds % 60
        p1 == IF days > 0 THEN <<UnitPart(days, DayUnit)>> ELSE <<>>
        p2 == IF hours > 0 \/ days > 0 THEN Append(p1, UnitPart(hours, HourUnit)) ELSE p1
        p3 == IF minutes > 0 \/ hours > 0 \/ days > 0
              THEN Append(p2, UnitPart(minutes, MinuteUnit)) ELSE p2
        p4 == IF incl THEN Append(p3, UnitPart(seconds, SecondUnit)) ELSE p3
    IN Join(p4, CommaSpace)

\* The durations a call is given: the days and seconds fields of a timedelta.
DeltaDays == {-1, 0, 1, 2, 12}
DeltaSeconds == {0, 1, 45, 59, 60, 61, 119, 120, 3599, 3600, 3601, 3661, 7200, 7322,
                 43200, 86399}
Timedeltas == [days : DeltaDays, seconds : DeltaSeconds]

FmtIdle ==
    /\ time_delta = [days |-> 0, seconds |-> 0]
    /\ incl_seconds = FALSE
    /\ fmtPc = "idle"
    /\ fmtResult = <<>>

FmtInit ==
    /\ time_delta \in Timedeltas
    /\ incl_seconds \in BOOLEAN
    /\ fmtPc = "ready"
    /\ fmtResult = <<>>

UFrame == UNCHANGED <<gitVars, procVars, zombieVars, netVars, sshVars, repoVars, tmuxVars>>

\* format_timedelta(time_delta, incl_seconds)
FormatTimedeltaCall ==
    /\ fmtPc = "ready"
    /\ fmtResult' = FormatTimedelta(time_delta, incl_seconds)
    /\ fmtPc' = "returned"
    /\ UNCHANGED <<time_delta, incl_seconds>>
    /\ UNCHANGED <<recentVars, countVars, pidVars, buildVars>> /\ UFrame

FmtNext == FormatTimedeltaCall

\* ------------------------------------------- get_recent.get_recent_files

\* A path under the directory given is the sequence of its names; the names are
\* texts.  The tree: files f and .h and directories d and .s in the directory
\* given, file g in d, file k in .s.
NameF == <<"f">>
NameH == <<".", "h">>
NameD == <<"d">>
NameS == <<".", "s">>
NameG == <<"g">>
NameK == <<"k">>
WalkTop == <<>>

\* What scandir finds in a directory: its subdirectories and its other entries.
SubDirs(dir) == IF dir = WalkTop THEN {NameD, NameS} ELSE {}
NonDirs(dir) ==
    IF dir = WalkTop THEN {NameF, NameH}
    ELSE IF dir = <<NameD>> THEN {NameG}
    ELSE IF dir = <<NameS>> THEN {NameK}
    ELSE {}

TreeFiles == {<<NameF>>, <<NameH>>, <<NameD, NameG>>, <<NameS, NameK>>}

\* The orders in which scandir can list a set of names.
Listings(S) ==
    {q \in [1..Cardinality(S) -> S] : \A i, j \in 1..Cardinality(S) : q[i] = q[j] => i = j}

\* name.startswith('.')
IsHidden(name) == StartsWith(name, <<".">>)

\* os.path.join(root, filename)
JoinPath(dir, name) == Append(dir, name)

FileInfo(path, modified_time) == [path |-> path, modified_time |-> modified_time]

\* Line 72: files.sort(key=modified_time, reverse=True), a stable sort: x goes
\* after the entries that are not older.
RECURSIVE InsertNewestFirst(_, _)
InsertNewestFirst(sorted, x) ==
    IF sorted = <<>> THEN <<x>>
    ELSE IF Head(sorted).modified_time >= x.modified_time
         THEN <<Head(sorted)>> \o InsertNewestFirst(Tail(sorted), x)
         ELSE <<x>> \o sorted

RECURSIVE SortNewestFirst(_, _)
SortNewestFirst(fs, acc) ==
    IF fs = <<>> THEN acc
    ELSE SortNewestFirst(Tail(fs), InsertNewestFirst(acc, Head(fs)))

\* Line 73 without the cut.
FirstNAll(fs, n) == fs

\* Line 73: files[:limit] for limit >= 0.
FirstN(fs, n) == SubSeq(fs, 1, IF n < Len(fs) THEN n ELSE Len(fs))

MTimes == 1..3

RecentIdle ==
    /\ mtimes = [f \in TreeFiles |-> 1]
    /\ limit = 0
    /\ exclude_hidden = FALSE
    /\ rPc = "idle"
    /\ walkTodo = <<>>
    /\ walkRoot = WalkTop
    /\ filenames = <<>>
    /\ files = <<>>
    /\ statTried = {}
    /\ statFailed = {}
    /\ listed = {}

\* Lines 26-30 and 42: the call, on a tree whose files have any modification times.
RecentInit ==
    /\ mtimes \in [TreeFiles -> MTimes]
    /\ limit \in 0..MaxLimit
    /\ exclude_hidden \in BOOLEAN
    /\ rPc = "walk"
    /\ walkTodo = <<WalkTop>>
    /\ walkRoot = WalkTop
    /\ filenames = <<>>
    /\ files = <<>>
    /\ statTried = {}
    /\ statFailed = {}
    /\ listed = {}

RFrame == UNCHANGED <<fmtVars, countVars, pidVars, buildVars>> /\ UFrame

\* Lines 45-48: os.walk lists the next directory, top-down, and yields it; the
\* hidden subdirectories are taken out of dirs when exclude_hidden.  A directory
\* that cannot be listed is passed over by os.walk (onerror is None).
RecentWalk ==
    /\ rPc = "walk"
    /\ walkTodo # <<>>
    /\ LET dir == Head(walkTodo)
       IN \/ /\ walkTodo' = Tail(walkTodo)
             /\ UNCHANGED <<rPc, walkRoot, filenames, listed>>
          \/ \E ds \in Listings(SubDirs(dir)), fns \in Listings(NonDirs(dir)) :
                LET dirs == IF exclude_hidden
                            THEN SelectSeq(ds, LAMBDA d : ~IsHidden(d))
                            ELSE ds
                IN /\ walkTodo' = [i \in 1..Len(dirs) |-> JoinPath(dir, dirs[i])]
                                      \o Tail(walkTodo)
                   /\ walkRoot' = dir
                   /\ filenames' = fns
                   /\ listed' = listed \cup {dir}
                   /\ rPc' = "files"
    /\ UNCHANGED <<mtimes, limit, exclude_hidden, files, statTried, statFailed>>
    /\ RFrame

\* Lines 50-65: one filename of the directory: skipped when hidden and
\* exclude_hidden, else os.stat is called; a stat that raises OSError leaves the
\* file out.
RecentFile ==
    /\ rPc = "files"
    /\ filenames # <<>>
    /\ LET filename == Head(filenames)
           filepath == JoinPath(walkRoot, filename)
       IN IF exclude_hidden /\ IsHidden(filename)
          THEN UNCHANGED <<files, statTried, statFailed>>
          ELSE /\ statTried' = statTried \cup {filepath}
               /\ \/ /\ files' = Append(files, FileInfo(filepath, mtimes[filepath]))
                     /\ UNCHANGED statFailed
                  \/ /\ statFailed' = statFailed \cup {filepath}
                     /\ UNCHANGED files
    /\ filenames' = Tail(filenames)
    /\ UNCHANGED <<mtimes, limit, exclude_hidden, rPc, walkTodo, walkRoot, listed>>
    /\ RFrame

\* Line 50: the filenames of the directory are exhausted; os.walk goes on.
RecentNextDir ==
    /\ rPc = "files"
    /\ filenames = <<>>
    /\ rPc' = "walk"
    /\ UNCHANGED <<mtimes, limit, exclude_hidden, walkTodo, walkRoot, filenames, files,
                   statTried, statFailed, listed>>
    /\ RFrame

\* Lines 72-73: the walk is over; sort newest first and cut at limit.
RecentReturn ==
    /\ rPc = "walk"
    /\ walkTodo = <<>>
    /\ files' = FirstN(SortNewestFirst(files, <<>>), limit)
    /\ rPc' = "done"
    /\ UNCHANGED <<mtimes, limit, exclude_hidden, walkTodo, walkRoot, filenames,
                   statTried, statFailed, listed>>
    /\ RFrame

RecentNext ==
    \/ RecentWalk
    \/ RecentFile
    \/ RecentNextDir
    \/ RecentReturn


\* ------------------------------------------------------------- texts

HeaderMark == <<"#", "#", " ">>
AheadTest == <<"[", "a", "h", "e", "a", "d">>
AheadSep == <<"[", "a", "h", "e", "a", "d", " ">>
BehindTest == <<"b", "e", "h", "i", "n", "d">>
BehindSep == <<"b", "e", "h", "i", "n", "d", " ">>
Untracked == <<"?", "?">>
StagedCodes == {"M", "A", "D", "R", "C"}

\* Branch names and tracking suffixes `git status --porcelain --branch` prints.
BranchMain == <<"m", "a", "i", "n">>
BranchBehind == <<"b", "e", "h", "i", "n", "d">>
Dots == <<".", ".", ".">>
Origin == <<"o", "r", "i", "g", "i", "n", "/">>
TrackAhead == <<" ", "[", "a", "h", "e", "a", "d", " ", "2", "]">>
TrackBehind == <<" ", "[", "b", "e", "h", "i", "n", "d", " ", "1", "]">>
TrackBoth == <<" ", "[", "a", "h", "e", "a", "d", " ", "2", ",", " ", "b", "e", "h", "i", "n", "d", " ", "1", "]">>
TrackBig == <<" ", "[", "a", "h", "e", "a", "d", " ", "1", "2", ",", " ", "b", "e", "h", "i", "n", "d", " ", "3", "0", "]">>
TrackGone == <<" ", "[", "g", "o", "n", "e", "]">>
Detached == <<"#", "#", " ", "H", "E", "A", "D", " ", "(", "n", "o", " ", "b", "r", "a", "n", "c", "h", ")">>

Branches == {BranchMain, BranchBehind}
Trackings == {<<>>, TrackAhead, TrackBehind, TrackBoth, TrackBig, TrackGone}

\* "## <branch>" (no upstream), "## <branch>...origin/<branch><tracking>", and the
\* detached-HEAD header.
Headers ==
    {HeaderMark \o b : b \in Branches}
    \cup {HeaderMark \o b \o Dots \o Origin \o b \o t : b \in Branches, t \in Trackings}
    \cup {Detached}

LineStagedFile == <<"M", " ", " ", "f", "i", "l", "e", ".", "t", "x", "t">>
LineNewFile == <<"?", "?", " ", "n", "e", "w", ".", "t", "x", "t">>

\* "XY f" for the status codes of the short format, and the two lines of the
\* documented example.
EntryLines ==
    ({<<x, y, " ", "f">> : x \in {" ", "M", "A"}, y \in {" ", "M", "D"}}
        \ {<<" ", " ", " ", "f">>})
    \cup {<<"D", " ", " ", "f">>, <<"R", " ", " ", "f">>, <<"C", " ", " ", "f">>,
          <<"U", "U", " ", "f">>, <<"?", "?", " ", "f">>}
    \cup {LineStagedFile, LineNewFile}

RECURSIVE SeqsUpTo(_, _)
SeqsUpTo(S, n) ==
    IF n = 0 THEN {<<>>}
    ELSE LET shorter == SeqsUpTo(S, n - 1)
         IN shorter \cup {Append(q, x) : q \in shorter, x \in S}

\* What git writes: the header line, then one line per entry, each ended by "\n".
PorcelainText(header, entries) ==
    LET ls == (IF header = <<>> THEN <<>> ELSE <<header>>) \o entries
    IN IF ls = <<>> THEN <<>> ELSE Join(ls, <<"\n">>) \o <<"\n">>

\* ------------------------------------------- git_detect._parse_git_status

NoRepo == "/repo"

\* Lines 144-149: the "[ahead" branch of a header line.  exc is the exception the
\* branch raises ("none": it completes), val the value of `ahead` after it.
ParseAhead(line, ahead) ==
    IF Contains(line, AheadTest)
    THEN LET parts == Split(line, AheadSep)
         IN IF Len(parts) < 2
            THEN [exc |-> "IndexError", val |-> ahead]
            ELSE LET ahead_part == Split(parts[2], <<"]">>)[1]
                     num == IF Contains(ahead_part, <<",">>)
                            THEN Split(ahead_part, <<",">>)[1]
                            ELSE ahead_part
                 IN IF IsInt(num)
                    THEN [exc |-> "none", val |-> IntOf(num)]
                    ELSE [exc |-> "ValueError", val |-> ahead]
    ELSE [exc |-> "none", val |-> ahead]

\* Lines 150-152: the "behind" branch of a header line.
ParseBehind(line, behind) ==
    IF Contains(line, BehindTest)
    THEN LET parts == Split(line, BehindSep)
         IN IF Len(parts) < 2
            THEN [exc |-> "IndexError", val |-> behind]
            ELSE LET behind_part == Split(parts[2], <<"]">>)[1]
                     num == RStripChars(behind_part, {"]"})
                 IN IF IsInt(num)
                    THEN [exc |-> "none", val |-> IntOf(num)]
                    ELSE [exc |-> "ValueError", val |-> behind]
    ELSE [exc |-> "none", val |-> behind]

\* ParseEntry counting a working-tree deletion as a modification.
ParseEntryDeletedAsModified(acc, line) ==
    IF Len(line) >= 2
    THEN [acc EXCEPT
            !.staged = IF line[1] \in StagedCodes THEN @ + 1 ELSE @,
            !.modified = IF line[2] \in {"M", "D"} THEN @ + 1 ELSE @,
            !.untracked = IF StartsWith(line, Untracked) THEN @ + 1 ELSE @]
    ELSE acc

\* ParseEntry reading the index status from the working-tree column.
ParseEntrySwapped(acc, line) ==
    IF Len(line) >= 2
    THEN [acc EXCEPT
            !.staged = IF line[2] \in StagedCodes THEN @ + 1 ELSE @,
            !.modified = IF line[2] = "M" THEN @ + 1 ELSE @,
            !.untracked = IF StartsWith(line, Untracked) THEN @ + 1 ELSE @]
    ELSE acc

\* Lines 157-171: a status line "XY filename".
ParseEntry(acc, line) ==
    IF Len(line) >= 2
    THEN [acc EXCEPT
            !.staged = IF line[1] \in StagedCodes THEN @ + 1 ELSE @,
            !.modified = IF line[2] = "M" THEN @ + 1 ELSE @,
            !.untracked = IF StartsWith(line, Untracked) THEN @ + 1 ELSE @]
    ELSE acc

\* Lines 138-171: the body of the loop for one line.
ParseLine(acc, line) ==
    IF line = <<>> THEN acc
    ELSE IF StartsWith(line, HeaderMark)
    THEN LET a == ParseAhead(line, acc.ahead)
         IN IF a.exc # "none" THEN [acc EXCEPT !.exc = a.exc]
            ELSE LET b == ParseBehind(line, acc.behind)
                 IN IF b.exc # "none"
                    THEN [acc EXCEPT !.exc = b.exc, !.ahead = a.val]
                    ELSE [acc EXCEPT !.ahead = a.val, !.behind = b.val]
    ELSE ParseEntry(acc, line)

\* Line 137: the loop; an exception ends it.
RECURSIVE ParseLines(_, _)
ParseLines(lines, acc) ==
    IF lines = <<>> \/ acc.exc # "none" THEN acc
    ELSE ParseLines(Tail(lines), ParseLine(acc, Head(lines)))

\* _parse_git_status(repo_path, branch, status_output): the GitStatus returned, with
\* exc the exception raised instead ("none": it returns).
ParseGitStatus(repo_path, branch, text) ==
    LET lines == Split(Strip(text), <<"\n">>)
        acc == ParseLines(lines, [exc |-> "none", ahead |-> 0, behind |-> 0,
                                  staged |-> 0, modified |-> 0, untracked |-> 0])
    IN [exc |-> acc.exc,
        repo_path |-> repo_path,
        branch |-> branch,
        is_clean |-> (acc.staged = 0 /\ acc.modified = 0 /\ acc.untracked = 0),
        ahead |-> acc.ahead,
        behind |-> acc.behind,
        staged |-> acc.staged,
        modified |-> acc.modified,
        untracked |-> acc.untracked,
        error |-> None]

GitStatusDefault == ParseGitStatus(NoRepo, <<>>, <<>>)

\* The texts the parser is given: the output of `git status --porcelain --branch`
\* (a header line, then the entries), and the empty text.
GitInit ==
    /\ gitHeader \in Headers \cup {<<>>}
    /\ gitEntries \in (IF gitHeader = <<>> THEN {<<>>} ELSE SeqsUpTo(EntryLines, MaxEntries))
    /\ status_output = PorcelainText(gitHeader, gitEntries)
    /\ gitPc = "ready"
    /\ gitStatus = GitStatusDefault

GitIdle ==
    /\ gitHeader = <<>>
    /\ gitEntries = <<>>
    /\ status_output = <<>>
    /\ gitPc = "ready"
    /\ gitStatus = GitStatusDefault

\* One call of _parse_git_status on the text.
ParseGitStatusCall ==
    /\ gitPc = "ready"
    /\ LET r == ParseGitStatus(NoRepo, BranchMain, status_output)
       IN /\ gitStatus' = r
          /\ gitPc' = IF r.exc = "none" THEN "returned" ELSE "raised"
    /\ UNCHANGED <<status_output, gitHeader, gitEntries>>
    /\ UNCHANGED <<procVars, zombieVars, netVars, sshVars, repoVars, tmuxVars, utilVars>>

GitNext == ParseGitStatusCall

\* ---------------------------------------------- git_detect._find_git_repos

\* A path under the scan root is the sequence of its names.
Root == <<>>
DirA == <<<<"a">>>>
DirB == <<<<"b">>>>
DirBC == <<<<"b">>, <<"c">>>>

\* The directories of the tree: the root, a and b in it, and c in b.
Dirs == {Root, DirA, DirB, DirBC}

ParentOf(d) == SubSeq(d, 1, Len(d) - 1)

\* d is e or lies under e.
Under(d, e) == Len(e) <= Len(d) /\ SubSeq(d, 1, Len(e)) = e

\* Path.__lt__: the parts compared as a list of strings.
RECURSIVE PathLess(_, _)
PathLess(p, q) ==
    IF q = <<>> THEN FALSE
    ELSE IF p = <<>> THEN TRUE
    ELSE IF Head(p) = Head(q) THEN PathLess(Tail(p), Tail(q))
    ELSE StrLess(Head(p), Head(q))

RECURSIVE InsertPath(_, _)
InsertPath(sorted, x) ==
    IF sorted = <<>> THEN <<x>>
    ELSE IF PathLess(x, Head(sorted)) THEN <<x>> \o sorted
    ELSE <<Head(sorted)>> \o InsertPath(Tail(sorted), x)

\* sorted(git_repos).
RECURSIVE SortPaths(_)
SortPaths(paths) ==
    IF paths = <<>> THEN <<>>
    ELSE InsertPath(SortPaths(SubSeq(paths, 1, Len(paths) - 1)), paths[Len(paths)])

\* The trees scanned: the root is readable and every directory may hold a .git
\* directory, a .git file or neither.
FsInit ==
    /\ fsKind \in [Dirs -> {"dir", "file", "none"}]
    /\ fsAccess \in [Dirs -> {"ok", "denied"}]
    /\ fsAccess[Root] = "ok"

FsIdle ==
    /\ fsKind = [d \in Dirs |-> "none"]
    /\ fsAccess = [d \in Dirs |-> "ok"]

FindIdle ==
    /\ fPc = "idle"
    /\ fTodo = {}
    /\ item = None
    /\ git_repos = <<>>
    /\ permErr = FALSE

FFrame == UNCHANGED <<gitVars, procVars, zombieVars, netVars, sshVars, tmuxVars, utilVars>>

\* Lines 31-35: the call starts; rglob(".git") has the whole tree before it.
FindCall ==
    /\ fPc = "idle"
    /\ fPc' = "walk"
    /\ fTodo' = Dirs
    /\ git_repos' = <<>>
    /\ item' = None
    /\ permErr' = FALSE
    /\ UNCHANGED <<fsVars, scanVars>> /\ FFrame

\* Line 35: rglob comes to the next directory, a directory whose parent it has
\* left behind, siblings in the order the file system lists them.  In a directory
\* that cannot be read the PermissionError of stat and scandir is caught inside
\* rglob: nothing is yielded for it and nothing below it is visited.  Elsewhere
\* the entry .git, if there is one, is yielded.
FindVisit ==
    /\ fPc = "walk"
    /\ \E d \in fTodo :
          /\ d = Root \/ ParentOf(d) \notin fTodo
          /\ IF fsAccess[d] = "denied"
             THEN /\ fTodo' = {e \in fTodo : ~Under(e, d)}
                  /\ permErr' = TRUE
                  /\ UNCHANGED <<fPc, item>>
             ELSE /\ fTodo' = fTodo \ {d}
                  /\ IF fsKind[d] = "none"
                     THEN UNCHANGED <<fPc, item>>
                     ELSE fPc' = "item" /\ item' = Some(d)
                  /\ UNCHANGED permErr
    /\ UNCHANGED <<git_repos, fsVars, scanVars>> /\ FFrame

\* Lines 36-39 and 42-44: item.is_dir() on the yielded path.  When the directory
\* has become unreadable since the yield, is_dir raises PermissionError and the
\* function returns [].  A .git directory adds its parent; a .git file adds nothing.
FindItem ==
    /\ fPc = "item"
    /\ LET d == Get(item)
       IN IF fsAccess[d] = "denied"
          THEN /\ fPc' = "returned"
               /\ repos' = <<>>
               /\ permErr' = TRUE
               /\ UNCHANGED git_repos
          ELSE /\ fPc' = "walk"
               /\ git_repos' = IF fsKind[d] = "dir" THEN Append(git_repos, d) ELSE git_repos
               /\ UNCHANGED <<repos, permErr>>
    /\ item' = None
    /\ UNCHANGED <<fTodo, fsVars, sPc, sIdx, gitBranch, results, cmdLog>> /\ FFrame

\* Line 41: return sorted(git_repos).
FindReturn ==
    /\ fPc = "walk"
    /\ fTodo = {}
    /\ fPc' = "returned"
    /\ repos' = SortPaths(git_repos)
    /\ UNCHANGED <<fTodo, item, git_repos, permErr, fsVars, sPc, sIdx, gitBranch, results,
                   cmdLog>>
    /\ FFrame

\* The permissions of a directory are changed while the walk runs.
FsChmod ==
    /\ fPc \in {"walk", "item"}
    /\ \E d \in Dirs \ {Root} :
          fsAccess' = [fsAccess EXCEPT ![d] = IF @ = "ok" THEN "denied" ELSE "ok"]
    /\ UNCHANGED <<fsKind, findVars, scanVars>> /\ FFrame

FindNext ==
    \/ FindCall
    \/ FindVisit
    \/ FindItem
    \/ FindReturn
    \/ FsChmod

\* ------------------------- git_detect._get_git_status and scan_git_repos

Unknown == <<"u", "n", "k", "n", "o", "w", "n">>
TimeoutText == <<"t", "i", "m", "e", "d", " ", "o", "u", "t">>
NotFoundText == <<"N", "o", " ", "s", "u", "c", "h", " ", "f", "i", "l", "e">>
FatalText == <<"f", "a", "t", "a", "l", ":", " ", "x", "\n">>

\* How `git rev-parse --abbrev-ref HEAD` can end: exit 0 with the branch name, a
\* nonzero exit, TimeoutExpired, FileNotFoundError.
BranchOutcomes ==
    {[kind |-> "ok", stdout |-> BranchMain \o <<"\n">>],
     [kind |-> "nonzero", stdout |-> <<>>],
     [kind |-> "timeout", stdout |-> <<>>],
     [kind |-> "notfound", stdout |-> <<>>]}

\* Outputs of `git status --porcelain --branch`: a clean tree ahead of its
\* upstream, a tree with a staged and an untracked file, a branch named "behind".
StatusTexts ==
    {PorcelainText(HeaderMark \o BranchMain \o Dots \o Origin \o BranchMain \o TrackAhead, <<>>),
     PorcelainText(HeaderMark \o BranchMain, <<LineStagedFile, LineNewFile>>),
     PorcelainText(HeaderMark \o BranchBehind, <<>>)}

\* How the status command can end: exit 0 with its output, a nonzero exit with
\* or without a message on stderr, TimeoutExpired.
StatusOutcomes ==
    {[kind |-> "ok", stdout |-> t, stderr |-> <<>>] : t \in StatusTexts}
    \cup {[kind |-> "nonzero", stdout |-> <<>>, stderr |-> e] : e \in {FatalText, <<>>}}
    \cup {[kind |-> "timeout", stdout |-> <<>>, stderr |-> <<>>]}

\* Lines 66-76, 89-99 and 102-112: the GitStatus of an error path.
ErrorStatus(repo_path, br, err) ==
    [exc |-> "none",
     repo_path |-> repo_path,
     branch |-> br,
     is_clean |-> FALSE,
     ahead |-> 0,
     behind |-> 0,
     staged |-> 0,
     modified |-> 0,
     untracked |-> 0,
     error |-> Some(err)]

\* Lines 65-76: str(e) of the exception of the branch command.
BranchErrorText(o) == IF o.kind = "timeout" THEN TimeoutText ELSE NotFoundText

\* Line 78: the branch name after a branch command that ran.
BranchOf(o) == IF o.kind = "ok" THEN Strip(o.stdout) ELSE Unknown

\* StatusResult reporting the branch as unknown on its error paths.
StatusResultUnknownBranch(repo_path, br, o) ==
    CASE o.kind = "timeout" -> ErrorStatus(repo_path, Unknown, TimeoutText)
      [] o.kind = "nonzero" -> ErrorStatus(repo_path, Unknown, Strip(o.stderr))
      [] OTHER -> ParseGitStatus(repo_path, br, o.stdout)

\* Lines 81-114: what _get_git_status returns (or raises, exc) once the status
\* command has ended with o.
StatusResult(repo_path, br, o) ==
    CASE o.kind = "timeout" -> ErrorStatus(repo_path, br, TimeoutText)
      [] o.kind = "nonzero" -> ErrorStatus(repo_path, br, Strip(o.stderr))
      [] OTHER -> ParseGitStatus(repo_path, br, o.stdout)

\* The lists _find_git_repos returns: distinct directories in ascending order.
RepoLists ==
    {q \in SeqsUpTo(Dirs, MaxRepos) :
        \A i \in 1..Len(q) - 1 : PathLess(q[i], q[i + 1])}

ScanIdle ==
    /\ repos = <<>>
    /\ sPc = "idle"
    /\ sIdx = 1
    /\ gitBranch = <<>>
    /\ results = <<>>
    /\ cmdLog = <<>>

RepoIdle == FsIdle /\ FindIdle /\ ScanIdle

\* Line 197 has returned: scan_git_repos holds the list of repositories.
ScanInit ==
    /\ repos \in RepoLists
    /\ fsKind = [d \in Dirs |-> IF \E i \in 1..Len(repos) : repos[i] = d THEN "dir" ELSE "none"]
    /\ fsAccess = [d \in Dirs |-> "ok"]
    /\ fPc = "returned"
    /\ fTodo = {}
    /\ item = None
    /\ git_repos = repos
    /\ permErr = FALSE
    /\ sPc = "repo"
    /\ sIdx = 1
    /\ gitBranch = <<>>
    /\ results = <<>>
    /\ cmdLog = <<>>

\* Lines 57-78 for the next repository of the comprehension of line 198: the
\* branch command.  TimeoutExpired and FileNotFoundError end _get_git_status
\* with an error GitStatus; otherwise the branch name is set.
RunBranch ==
    /\ sPc = "repo"
    /\ sIdx <= Len(repos)
    /\ \E o \in BranchOutcomes :
          /\ cmdLog' = Append(cmdLog, [branch |-> o.kind, status |-> "notrun"])
          /\ IF o.kind \in {"timeout", "notfound"}
             THEN /\ results' = Append(results,
                                       ErrorStatus(repos[sIdx], Unknown, BranchErrorText(o)))
                  /\ sIdx' = sIdx + 1
                  /\ UNCHANGED <<sPc, gitBranch>>
             ELSE /\ gitBranch' = BranchOf(o)
                  /\ sPc' = "status"
                  /\ UNCHANGED <<results, sIdx>>
    /\ UNCHANGED <<repos, fsVars, findVars>> /\ FFrame

\* RunStatus leaving out a repository whose status command failed.
RunStatusDropFailed ==
    /\ sPc = "status"
    /\ \E o \in StatusOutcomes :
          LET r == StatusResult(repos[sIdx], gitBranch, o)
          IN /\ cmdLog' = [cmdLog EXCEPT ![Len(cmdLog)].status = o.kind]
             /\ IF r.exc # "none"
                THEN /\ sPc' = "raised"
                     /\ UNCHANGED <<results, sIdx>>
                ELSE /\ results' = IF r.error # None THEN results ELSE Append(results, r)
                     /\ sIdx' = sIdx + 1
                     /\ sPc' = "repo"
    /\ gitBranch' = <<>>
    /\ UNCHANGED <<repos, fsVars, findVars>> /\ FFrame

\* Lines 81-114: the status command and what _get_git_status makes of it.  An
\* exception of _parse_git_status leaves scan_git_repos.
RunStatus ==
    /\ sPc = "status"
    /\ \E o \in StatusOutcomes :
          LET r == StatusResult(repos[sIdx], gitBranch, o)
          IN /\ cmdLog' = [cmdLog EXCEPT ![Len(cmdLog)].status = o.kind]
             /\ IF r.exc # "none"
                THEN /\ sPc' = "raised"
                     /\ UNCHANGED <<results, sIdx>>
                ELSE /\ results' = Append(results, r)
                     /\ sIdx' = sIdx + 1
                     /\ sPc' = "repo"
    /\ gitBranch' = <<>>
    /\ UNCHANGED <<repos, fsVars, findVars>> /\ FFrame

\* Line 198: the comprehension is over.
ScanReturn ==
    /\ sPc = "repo"
    /\ sIdx > Len(repos)
    /\ sPc' = "returned"
    /\ UNCHANGED <<repos, sIdx, gitBranch, results, cmdLog, fsVars, findVars>> /\ FFrame

ScanNext ==
    \/ RunBranch
    \/ RunStatus
    \/ ScanReturn

\* ------------------------------------------------------ the process table

Pids == 1..MaxProcs

\* Process.name(): pid 2 is the SSH daemon when it runs.
ProcName(p) == IF p = 2 THEN "sshd" ELSE "bash"

\* The pids of the table, ascending (psutil.pids(), sorted by process_iter).
RECURSIVE LivePidsFrom(_, _)
LivePidsFrom(p, state) ==
    IF p > MaxProcs THEN <<>>
    ELSE (IF state[p] # "gone" THEN <<p>> ELSE <<>>) \o LivePidsFrom(p + 1, state)

LivePids == LivePidsFrom(1, procState)

ProcInit == procState \in [Pids -> {"running", "zombie", "gone"}]

ProcIdle == procState = [p \in Pids |-> "running"]

\* A process terminates and waits to be reaped.
ProcDie(p) ==
    /\ procState[p] = "running"
    /\ procState' = [procState EXCEPT ![p] = "zombie"]

\* A terminated process is reaped, or a process exits and is reaped at once.
ProcVanish(p) ==
    /\ procState[p] # "gone"
    /\ procState' = [procState EXCEPT ![p] = "gone"]

\* A process is started.
ProcSpawn(p) ==
    /\ procState[p] = "gone"
    /\ procState' = [procState EXCEPT ![p] = "running"]

\* -------------------------------------------- zombie.get_zombie_processes

\* _get_zombie_info on success: the ZombieInfo of process p.
GetZombieInfo(p) == [name |-> ProcName(p), user |-> "root", create_time |-> p]

ZFrame == UNCHANGED <<gitVars, netVars, sshVars, repoVars, tmuxVars, utilVars>>

ZombieIdle ==
    /\ zPc = "idle"
    /\ zPids = <<>>
    /\ zIdx = 1
    /\ zombies = <<>>
    /\ zLog = <<>>

\* Line 42-43: zombies = [], and process_iter() takes the pids of the table.
ZombieCall ==
    /\ zPc = "idle"
    /\ zPc' = "iter"
    /\ zPids' = LivePids
    /\ zIdx' = 1
    /\ zombies' = <<>>
    /\ zLog' = <<>>
    /\ UNCHANGED procVars /\ ZFrame

\* Line 43: process_iter() yields the next process; a pid that is gone by now is
\* dropped by process_iter itself.  After the last pid the loop ends (line 56).
ZombieIterNext ==
    /\ zPc = "iter"
    /\ IF zIdx > Len(zPids)
       THEN zPc' = "done" /\ zIdx' = zIdx
       ELSE IF procState[zPids[zIdx]] = "gone"
       THEN zPc' = "iter" /\ zIdx' = zIdx + 1
       ELSE zPc' = "status" /\ zIdx' = zIdx
    /\ UNCHANGED <<zPids, zombies, zLog>>
    /\ UNCHANGED procVars /\ ZFrame

\* Line 44: p.status() == STATUS_ZOMBIE, outside the try: for a process that is
\* gone it raises NoSuchProcess out of get_zombie_processes.
ZombieStatus ==
    /\ zPc = "status"
    /\ LET p == zPids[zIdx]
       IN IF procState[p] = "gone"
          THEN zPc' = "raised" /\ zIdx' = zIdx
          ELSE IF procState[p] = "zombie"
          THEN zPc' = "info" /\ zIdx' = zIdx
          ELSE zPc' = "iter" /\ zIdx' = zIdx + 1
    /\ UNCHANGED <<zPids, zombies, zLog>>
    /\ UNCHANGED procVars /\ ZFrame

\* ZombieRecord treating only NoSuchProcess as a failed read: after any other
\* exception the entry is appended all the same.
ZombieRecordAppendOnError(p, read) ==
    /\ zombies' = IF read # "gone" THEN Append(zombies, GetZombieInfo(p)) ELSE zombies
    /\ zLog' = Append(zLog, [pid |-> p, read |-> read])
    /\ zPc' = "iter"
    /\ zIdx' = zIdx + 1

\* Lines 45-55 on a metadata read with outcome `read`: "ok" appends the info,
\* "gone" (NoSuchProcess) and "error" (any other exception) are printed and skipped.
ZombieRecord(p, read) ==
    /\ zombies' = IF read = "ok" THEN Append(zombies, GetZombieInfo(p)) ELSE zombies
    /\ zLog' = Append(zLog, [pid |-> p, read |-> read])
    /\ zPc' = "iter"
    /\ zIdx' = zIdx + 1

\* Lines 45-55: _get_zombie_info(p) inside the try.  The read fails with
\* NoSuchProcess when the process has been reaped since the status check, and can
\* fail with another exception (AccessDenied, ...) while it is still there.
ZombieInfo ==
    /\ zPc = "info"
    /\ LET p == zPids[zIdx]
       IN IF procState[p] = "gone"
          THEN ZombieRecord(p, "gone")
          ELSE \E read \in {"ok", "error"} : ZombieRecord(p, read)
    /\ UNCHANGED zPids
    /\ UNCHANGED procVars /\ ZFrame

\* The caller has the result (or the exception); the next scan can start.
ZombieReturn ==
    /\ zPc \in {"done", "raised"}
    /\ zPc' = "idle"
    /\ UNCHANGED <<zPids, zIdx, zombies, zLog>>
    /\ UNCHANGED procVars /\ ZFrame

\* The process table changes under the scan.
ZombieEnv ==
    /\ \E p \in Pids : ProcDie(p) \/ ProcVanish(p) \/ ProcSpawn(p)
    /\ UNCHANGED zombieVars /\ ZFrame

ZombieNext ==
    \/ ZombieCall
    \/ ZombieIterNext
    \/ ZombieStatus
    \/ ZombieInfo
    \/ ZombieReturn
    \/ ZombieEnv


\* ---------------------------------------------------- the connection table

Ip10 == <<"1", "0", ".", "0", ".", "0", ".", "1">>
Ip9 == <<"9", ".", "0", ".", "0", ".", "1">>
IPs == {Ip10, Ip9}
Ports == {22, 2222}
Statuses == {"LISTEN", "ESTABLISHED", "TIME_WAIT"}

\* A row of psutil.net_connections: laddr = (ip, port) and status.
ConnRecords == [ip : IPs, port : Ports, status : Statuses]

\* The sort key c.laddr compared as Python compares tuples (ip, port).
LaddrLess(c, d) ==
    StrLess(c.ip, d.ip) \/ (c.ip = d.ip /\ c.port < d.port)

\* list.sort(key=...) is stable: x goes after the rows that are not greater.
RECURSIVE InsertSorted(_, _)
InsertSorted(sorted, x) ==
    IF sorted = <<>> THEN <<x>>
    ELSE IF LaddrLess(x, Head(sorted)) THEN <<x>> \o sorted
    ELSE <<Head(sorted)>> \o InsertSorted(Tail(sorted), x)

RECURSIVE SortByLaddr(_)
SortByLaddr(rows) ==
    IF rows = <<>> THEN <<>>
    ELSE InsertSorted(SortByLaddr(SubSeq(rows, 1, Len(rows) - 1)), rows[Len(rows)])

NotTimeWait(c) == c.status # "TIME_WAIT"

\* get_connections_list_filtered without the sort.
GetConnectionsListUnsorted(conns_list) ==
    SelectSeq(conns_list, NotTimeWait)

\* get_connections_list_filtered() on the table conns_list.
GetConnectionsListFiltered(conns_list) ==
    SortByLaddr(SelectSeq(conns_list, NotTimeWait))

\* ----------------------------------------- ssh_detector._probe_ssh_once

RecvSize == 512

SshMark == <<"S", "S", "H", "-">>
BannerOpenSSH == <<"S", "S", "H", "-", "2", ".", "0", "-", "O", "p", "e", "n", "S", "S", "H", "_", "9", "\r", "\n">>
BannerPreamble == <<"h", "i", "\n", "S", "S", "H", "-", "2", ".", "0", "-", "x", "\r", "\n">>
BannerHttp == <<"H", "T", "T", "P", "/", "1", ".", "0", " ", "4", "0", "0", "\r", "\n">>

\* What a connect-and-read can meet: a daemon that sends the SSH banner at once, one
\* that sends it after a preamble line, another protocol, a peer that closes
\* without data, a refused connection and a timeout.
ResponseKinds == {"ssh", "preamble", "http", "empty", "refused", "timeout"}

\* The bytes the peer sends.
ResponseData(kind) ==
    CASE kind = "ssh" -> BannerOpenSSH
      [] kind = "preamble" -> BannerPreamble
      [] kind = "http" -> BannerHttp
      [] OTHER -> <<>>

\* _probe_ssh_once(host, port) when the peer answers with `kind`: the banner
\* returned, or None.
ProbeSshOnce(kind) ==
    IF kind \in {"refused", "timeout"}
    THEN None                                           \* lines 108-109
    ELSE LET sent == ResponseData(kind)
             data == SubSeq(sent, 1, IF Len(sent) < RecvSize THEN Len(sent) ELSE RecvSize)
         IN IF data = <<>> THEN None                      \* lines 95-96
            ELSE LET banner == Strip(data)
                 IN IF StartsWith(banner, SshMark) THEN Some(banner)
                    ELSE IF Contains(banner, SshMark)
                    THEN Some(FirstLine(SubSeq(banner, Find(banner, SshMark), Len(banner))))
                    ELSE None

\* `if probe_result:` (line 75): a banner that is not the empty string.
ProbeHit(kind) == ProbeSshOnce(kind) # None /\ Get(ProbeSshOnce(kind)) # <<>>

\* Line 117 looking at the port only.
IsSshConnAnyStatus(conn, port) == conn.port = port

\* Line 117: conn.laddr.port == ssh_port and conn.status == "ESTABLISHED"
IsSshConn(conn, port) == conn.port = port /\ conn.status = "ESTABLISHED"

\* Lines 116-119: the loop over conns with its counter and its dict; the dict is
\* a function on its keys.
RECURSIVE CountSshConns(_, _, _, _)
CountSshConns(port, rest, counter, dict) ==
    IF rest = <<>> THEN dict
    ELSE IF IsSshConn(Head(rest), port)
         THEN CountSshConns(port, Tail(rest), counter + 1, (counter :> Head(rest)) @@ dict)
         ELSE CountSshConns(port, Tail(rest), counter, dict)

\* Lines 112-120: _get_ssh_connections(ssh_port, conns)
GetSshConnections(port, conns) == CountSshConns(port, conns, 1, <<>>)

CountIdle ==
    /\ scPort = 22
    /\ scConns = <<>>
    /\ scPc = "idle"
    /\ ssh_conns = <<>>

\* The call on any port and any connection list.
CountInit ==
    /\ scPort \in Ports
    /\ scConns \in SeqsUpTo(ConnRecords, MaxConns)
    /\ scPc = "ready"
    /\ ssh_conns = <<>>

\* _get_ssh_connections(scPort, scConns)
GetSshConnectionsCall ==
    /\ scPc = "ready"
    /\ ssh_conns' = GetSshConnections(scPort, scConns)
    /\ scPc' = "returned"
    /\ UNCHANGED <<scPort, scConns>>
    /\ UNCHANGED <<fmtVars, recentVars, pidVars, buildVars>> /\ UFrame

CountNext == GetSshConnectionsCall


\* -------------------------------------------- ssh_detector.get_ssh_status

Threads == 1..NumThreads

SSHStatusDefault ==
    [is_active |-> FALSE, active_connections |-> None, port |-> None, pid |-> None,
     error_message |-> None]

SFrame == UNCHANGED <<gitVars, zombieVars, repoVars, tmuxVars, utilVars>>

\* The locals of every thread as a call starts.
SshIdle ==
    /\ ModuleCache = [ssh_port |-> None]
    /\ pc = [t \in Threads |-> "idle"]
    /\ processes = [t \in Threads |-> <<>>]
    /\ pIdx = [t \in Threads |-> 1]
    /\ is_active = [t \in Threads |-> FALSE]
    /\ pid = [t \in Threads |-> None]
    /\ connections = [t \in Threads |-> <<>>]
    /\ cIdx = [t \in Threads |-> 1]
    /\ ports = [t \in Threads |-> {}]
    /\ warned = [t \in Threads |-> FALSE]
    /\ ssh_port = [t \in Threads |-> None]
    /\ sshStatus = [t \in Threads |-> SSHStatusDefault]
    /\ probed = [t \in Threads |-> <<>>]
    /\ priorPort = [t \in Threads |-> None]
    /\ steady = [t \in Threads |-> {}]
    /\ discovered = None
    /\ sawNone = FALSE

NetIdle ==
    /\ netConns = <<>>
    /\ service = [p \in Ports |-> "refused"]

\* Lines 37-41 and 61: get_ssh_status starts; _is_sshd_running lists the processes.
SshCall(t) ==
    /\ pc[t] = "idle"
    /\ pc' = [pc EXCEPT ![t] = "sshd"]
    /\ processes' = [processes EXCEPT ![t] = LivePids]
    /\ pIdx' = [pIdx EXCEPT ![t] = 1]
    /\ priorPort' = [priorPort EXCEPT ![t] = discovered]
    /\ steady' = [steady EXCEPT ![t] = {p \in Ports : ProbeHit(service[p])}]
    /\ UNCHANGED <<is_active, pid, connections, cIdx, ports, warned, ssh_port,
                   sshStatus, probed>>
    /\ UNCHANGED <<ModuleCache, discovered, sawNone, procVars, netVars>> /\ SFrame

\* Lines 62-65: one turn of _is_sshd_running's loop.  A process that is gone by
\* now either went before process_iter yielded it, and is skipped, or went after,
\* and process.name() raises NoSuchProcess, which nothing catches.
SshdScan(t) ==
    /\ pc[t] = "sshd"
    /\ IF pIdx[t] > Len(processes[t])
       THEN /\ pc' = [pc EXCEPT ![t] = "conns"]
            /\ UNCHANGED <<pIdx, is_active, pid>>
       ELSE LET p == processes[t][pIdx[t]]
            IN IF procState[p] = "gone"
               THEN \/ /\ pc' = [pc EXCEPT ![t] = "raised"]
                       /\ UNCHANGED <<pIdx, is_active, pid>>
                    \/ /\ pIdx' = [pIdx EXCEPT ![t] = @ + 1]
                       /\ UNCHANGED <<pc, is_active, pid>>
               ELSE IF ProcName(p) = "sshd"
               THEN /\ pc' = [pc EXCEPT ![t] = "conns"]
                    /\ is_active' = [is_active EXCEPT ![t] = TRUE]
                    /\ pid' = [pid EXCEPT ![t] = Some(p)]
                    /\ UNCHANGED pIdx
               ELSE /\ pIdx' = [pIdx EXCEPT ![t] = @ + 1]
                    /\ UNCHANGED <<pc, is_active, pid>>
    /\ UNCHANGED <<processes, connections, cIdx, ports, warned, ssh_port, sshStatus,
                   probed, priorPort, steady>>
    /\ UNCHANGED <<ModuleCache, discovered, sawNone, procVars, netVars>> /\ SFrame

\* Line 42: connections = get_connections_list_filtered().
GetConns(t) ==
    /\ pc[t] = "conns"
    /\ connections' = [connections EXCEPT ![t] = GetConnectionsListFiltered(netConns)]
    /\ pc' = [pc EXCEPT ![t] = "test"]
    /\ UNCHANGED <<processes, pIdx, is_active, pid, cIdx, ports, warned, ssh_port,
                   sshStatus, probed, priorPort, steady>>
    /\ UNCHANGED <<ModuleCache, discovered, sawNone, procVars, netVars>> /\ SFrame

\* TestCache never taking the cached port.
TestCacheNever(t) ==
    /\ pc[t] = "test"
    /\ pc' = [pc EXCEPT ![t] = "detect"]
    /\ UNCHANGED <<processes, pIdx, is_active, pid, connections, cIdx, ports, warned,
                   ssh_port, sshStatus, probed, priorPort, steady>>
    /\ UNCHANGED <<ModuleCache, discovered, sawNone, procVars, netVars>> /\ SFrame

\* Line 43: if ModuleCache.ssh_port.
TestCache(t) ==
    /\ pc[t] = "test"
    /\ pc' = [pc EXCEPT ![t] = IF Truthy(ModuleCache.ssh_port) THEN "hit" ELSE "detect"]
    /\ UNCHANGED <<processes, pIdx, is_active, pid, connections, cIdx, ports, warned,
                   ssh_port, sshStatus, probed, priorPort, steady>>
    /\ UNCHANGED <<ModuleCache, discovered, sawNone, procVars, netVars>> /\ SFrame

\* Line 44: ssh_port = ModuleCache.ssh_port.
ReadCache(t) ==
    /\ pc[t] = "hit"
    /\ ssh_port' = [ssh_port EXCEPT ![t] = ModuleCache.ssh_port]
    /\ pc' = [pc EXCEPT ![t] = "count"]
    /\ UNCHANGED <<processes, pIdx, is_active, pid, connections, cIdx, ports, warned,
                   sshStatus, probed, priorPort, steady>>
    /\ UNCHANGED <<ModuleCache, discovered, sawNone, procVars, netVars>> /\ SFrame

\* ProbeStep leaving the loop at the first banner found.
ProbeStepBreak(t) ==
    /\ pc[t] = "detect"
    /\ cIdx[t] <= Len(connections[t])
    /\ LET c == connections[t][cIdx[t]]
           hit == c.status = "LISTEN" /\ ProbeHit(service[c.port])
       IN /\ ports' = [ports EXCEPT ![t] = IF hit THEN @ \cup {c.port} ELSE @]
          /\ probed' = [probed EXCEPT ![t] =
                            IF c.status = "LISTEN"
                            THEN Append(@, [conn |-> c, resp |-> service[c.port]])
                            ELSE @]
          /\ cIdx' = [cIdx EXCEPT ![t] = IF hit THEN Len(connections[t]) + 1 ELSE @ + 1]
    /\ UNCHANGED <<pc, processes, pIdx, is_active, pid, connections, warned, ssh_port,
                   sshStatus, priorPort, steady>>
    /\ UNCHANGED <<ModuleCache, discovered, sawNone, procVars, netVars>> /\ SFrame

\* Lines 72-76: one turn of the loop of _detect_ssh_port_unpriveleged: a connection
\* in LISTEN state is probed, and its port recorded when a banner came back.
ProbeStep(t) ==
    /\ pc[t] = "detect"
    /\ cIdx[t] <= Len(connections[t])
    /\ LET c == connections[t][cIdx[t]]
       IN IF c.status = "LISTEN"
          THEN /\ ports' = [ports EXCEPT ![t] =
                               IF ProbeHit(service[c.port]) THEN @ \cup {c.port} ELSE @]
               /\ probed' = [probed EXCEPT ![t] =
                               Append(@, [conn |-> c, resp |-> service[c.port]])]
          ELSE UNCHANGED <<ports, probed>>
    /\ cIdx' = [cIdx EXCEPT ![t] = @ + 1]
    /\ UNCHANGED <<pc, processes, pIdx, is_active, pid, connections, warned, ssh_port,
                   sshStatus, priorPort, steady>>
    /\ UNCHANGED <<ModuleCache, discovered, sawNone, procVars, netVars>> /\ SFrame

\* DetectReturn giving up when several ports answered.
DetectReturnNoneOnMany(t) ==
    /\ pc[t] = "detect"
    /\ cIdx[t] > Len(connections[t])
    /\ warned' = [warned EXCEPT ![t] = Cardinality(ports[t]) > 1]
    /\ ssh_port' = [ssh_port EXCEPT ![t] =
                        IF Cardinality(ports[t]) = 1 THEN ports[t] ELSE None]
    /\ pc' = [pc EXCEPT ![t] = "write"]
    /\ UNCHANGED <<processes, pIdx, is_active, pid, connections, cIdx, ports, sshStatus,
                   probed, priorPort, steady>>
    /\ UNCHANGED <<ModuleCache, discovered, sawNone, procVars, netVars>> /\ SFrame

\* Lines 77-81 and 46: the loop is over; the warning, and None or ports.pop(), an
\* arbitrary element of the set.
DetectReturn(t) ==
    /\ pc[t] = "detect"
    /\ cIdx[t] > Len(connections[t])
    /\ warned' = [warned EXCEPT ![t] = Cardinality(ports[t]) > 1]
    /\ IF Cardinality(ports[t]) = 0
       THEN ssh_port' = [ssh_port EXCEPT ![t] = None]
       ELSE \E p \in ports[t] : ssh_port' = [ssh_port EXCEPT ![t] = Some(p)]
    /\ pc' = [pc EXCEPT ![t] = "write"]
    /\ UNCHANGED <<processes, pIdx, is_active, pid, connections, cIdx, ports, sshStatus,
                   probed, priorPort, steady>>
    /\ UNCHANGED <<ModuleCache, discovered, sawNone, procVars, netVars>> /\ SFrame

\* Line 47: ModuleCache.ssh_port = ssh_port, whatever ssh_port is.
WriteCache(t) ==
    /\ pc[t] = "write"
    /\ ModuleCache' = [ssh_port |-> ssh_port[t]]
    /\ discovered' = IF discovered = None THEN ssh_port[t] ELSE discovered
    /\ pc' = [pc EXCEPT ![t] = "count"]
    /\ UNCHANGED <<processes, pIdx, is_active, pid, connections, cIdx, ports, warned,
                   ssh_port, sshStatus, probed, priorPort, steady>>
    /\ UNCHANGED <<sawNone, procVars, netVars>> /\ SFrame

\* Lines 48-49 counting the connections only while the daemon is seen running.
CountAndBuildIfActive(t) ==
    /\ pc[t] = "count"
    /\ sshStatus' = [sshStatus EXCEPT ![t] =
          [is_active |-> is_active[t],
           port |-> ssh_port[t],
           pid |-> pid[t],
           active_connections |->
               IF Truthy(ssh_port[t]) /\ is_active[t]
               THEN Some(GetSshConnections(Get(ssh_port[t]), connections[t]))
               ELSE None,
           error_message |-> None]]
    /\ sawNone' = (sawNone \/ ssh_port[t] = None)
    /\ pc' = [pc EXCEPT ![t] = "done"]
    /\ UNCHANGED <<processes, pIdx, is_active, pid, connections, cIdx, ports, warned,
                   ssh_port, probed, priorPort, steady>>
    /\ UNCHANGED <<ModuleCache, discovered, procVars, netVars>> /\ SFrame

\* Lines 48-56: the established connections on the port, and the SSHStatus.
CountAndBuild(t) ==
    /\ pc[t] = "count"
    /\ sshStatus' = [sshStatus EXCEPT ![t] =
          [is_active |-> is_active[t],
           port |-> ssh_port[t],
           pid |-> pid[t],
           active_connections |->
               IF Truthy(ssh_port[t])
               THEN Some(GetSshConnections(Get(ssh_port[t]), connections[t]))
               ELSE None,
           error_message |-> None]]
    /\ sawNone' = (sawNone \/ ssh_port[t] = None)
    /\ pc' = [pc EXCEPT ![t] = "done"]
    /\ UNCHANGED <<processes, pIdx, is_active, pid, connections, cIdx, ports, warned,
                   ssh_port, probed, priorPort, steady>>
    /\ UNCHANGED <<ModuleCache, discovered, procVars, netVars>> /\ SFrame

\* The caller has the SSHStatus (or the exception); the thread serves its next
\* request with fresh locals.
SshReturn(t) ==
    /\ pc[t] \in {"done", "raised"}
    /\ pc' = [pc EXCEPT ![t] = "idle"]
    /\ processes' = [processes EXCEPT ![t] = <<>>]
    /\ pIdx' = [pIdx EXCEPT ![t] = 1]
    /\ is_active' = [is_active EXCEPT ![t] = FALSE]
    /\ pid' = [pid EXCEPT ![t] = None]
    /\ connections' = [connections EXCEPT ![t] = <<>>]
    /\ cIdx' = [cIdx EXCEPT ![t] = 1]
    /\ ports' = [ports EXCEPT ![t] = {}]
    /\ warned' = [warned EXCEPT ![t] = FALSE]
    /\ ssh_port' = [ssh_port EXCEPT ![t] = None]
    /\ sshStatus' = [sshStatus EXCEPT ![t] = SSHStatusDefault]
    /\ probed' = [probed EXCEPT ![t] = <<>>]
    /\ priorPort' = [priorPort EXCEPT ![t] = None]
    /\ steady' = [steady EXCEPT ![t] = {}]
    /\ UNCHANGED <<ModuleCache, discovered, sawNone, procVars, netVars>> /\ SFrame

\* ---------------------------------------------- scanner.build_server_list

\* A row of psutil.net_connections(kind="tcp"): laddr, status and pid (None when
\* the owner may not be read).
SocketRows == [ip : {Ip10}, port : Ports, status : {"LISTEN", "ESTABLISHED"},
               pid : {None, Some(1), Some(2)}]

\* Lines 53-74: gather_listening_conns, the (ip, port, pid) of the listening rows
\* in the order of the table.
GatherListeningConns(rows) ==
    LET listening == SelectSeq(rows, LAMBDA c : c.status = "LISTEN")
    IN [i \in 1..Len(listening) |->
           [ip |-> listening[i].ip, port |-> listening[i].port, pid |-> listening[i].pid]]

\* Line 137: ignore_pids or []
IgnoreList(arg) == IF arg = None THEN <<>> ELSE Get(arg)

\* Line 147: pid in ignore_pids
InList(x, list) == \E i \in 1..Len(list) : list[i] = x

\* Line 142: the position in seen of the entry of a key (0: key not in seen).
SeenAt(entries, ip, port) ==
    LET hits == {i \in 1..Len(entries) : entries[i].ip = ip /\ entries[i].port = port}
    IN IF hits = {} THEN 0 ELSE CHOOSE i \in hits : TRUE

\* Lines 77-89: get_proc_info, "unknown" for no pid and for a process that
\* cannot be read.
ProcInfoNames(p) == IF p = None THEN {"unknown"} ELSE {"unknown", "server"}

BuildIdle ==
    /\ ignore_pids = None
    /\ sockets = <<>>
    /\ bPc = "idle"
    /\ bConns = <<>>
    /\ bIdx = 1
    /\ bSeen = <<>>
    /\ servers = <<>>

\* The call, with no pids to ignore or with pid 1 to ignore, on any table.
BuildInit ==
    /\ ignore_pids \in {None, Some(<<>>), Some(<<1>>)}
    /\ sockets \in SeqsUpTo(SocketRows, MaxSockets)
    /\ bPc = "gather"
    /\ bConns = <<>>
    /\ bIdx = 1
    /\ bSeen = <<>>
    /\ servers = <<>>

BFrame == UNCHANGED <<fmtVars, recentVars, countVars, pidVars>> /\ UFrame

\* Lines 137-139.
BuildGather ==
    /\ bPc = "gather"
    /\ bConns' = GatherListeningConns(sockets)
    /\ bPc' = "loop"
    /\ UNCHANGED <<ignore_pids, sockets, bIdx, bSeen, servers>>
    /\ BFrame

\* Lines 140-159: one (ip, port, pid) of conns.
BuildStep ==
    /\ bPc = "loop"
    /\ bIdx <= Len(bConns)
    /\ LET c == bConns[bIdx]
           at == SeenAt(bSeen, c.ip, c.port)
       IN IF at # 0
          THEN bSeen' = IF bSeen[at].pid = None /\ c.pid # None
                       THEN [bSeen EXCEPT ![at].pid = c.pid]
                       ELSE bSeen
          ELSE IF c.pid # None /\ InList(Get(c.pid), IgnoreList(ignore_pids))
          THEN UNCHANGED bSeen
          ELSE \E name \in ProcInfoNames(c.pid), http_ok \in BOOLEAN :
                  bSeen' = Append(bSeen, [ip |-> c.ip, port |-> c.port, pid |-> c.pid,
                                        process_name |-> name, http_probe |-> http_ok])
    /\ bIdx' = bIdx + 1
    /\ UNCHANGED <<ignore_pids, sockets, bPc, bConns, servers>>
    /\ BFrame

\* Line 160: list(seen.values())
BuildReturn ==
    /\ bPc = "loop"
    /\ bIdx > Len(bConns)
    /\ servers' = bSeen
    /\ bPc' = "done"
    /\ UNCHANGED <<ignore_pids, sockets, bConns, bIdx, bSeen>>
    /\ BFrame

BuildNext ==
    \/ BuildGather
    \/ BuildStep
    \/ BuildReturn

\* ---- the host under the detector

\* What a listening port answers while the detector is watched: the daemon's
\* banner, or nothing in time.
DaemonKinds == {"ssh", "timeout"}

Listen22 == [ip |-> Ip10, port |-> 22, status |-> "LISTEN"]
Listen2222 == [ip |-> Ip10, port |-> 2222, status |-> "LISTEN"]
Established22 == [ip |-> Ip10, port |-> 22, status |-> "ESTABLISHED"]

\* The connection tables of the host: no socket, a listener on either port or on
\* both, with and without a session.
HostTables ==
    {<<>>, <<Listen22>>, <<Listen2222>>, <<Listen2222, Listen22>>,
     <<Established22, Listen22>>}

\* Port p has a listening socket in table tbl.
Listening(tbl, p) ==
    \E i \in 1..Len(tbl) : tbl[i].port = p /\ tbl[i].status = "LISTEN"

\* The answers that go with a table: a port nobody listens on refuses.
ServicesOf(tbl) ==
    {sv \in [Ports -> DaemonKinds \cup {"refused"}] :
        \A p \in Ports : (sv[p] = "refused") <=> ~Listening(tbl, p)}

\* The ports of `seen` that still answer with a banner under sv.
StillAnswering(seen, sv) == {p \in seen : ProbeHit(sv[p])}

\* A process exits or is started.
HostProcChange ==
    /\ \E p \in Pids : ProcVanish(p) \/ ProcSpawn(p)
    /\ UNCHANGED <<netVars, sshVars>> /\ SFrame

\* The program behind a listening port is replaced: it starts or stops answering
\* with the banner.
HostServiceChange ==
    /\ \E p \in Ports, k \in DaemonKinds :
          /\ Listening(netConns, p)
          /\ service[p] # k
          /\ service' = [service EXCEPT ![p] = k]
    /\ steady' = [t \in Threads |-> StillAnswering(steady[t], service')]
    /\ UNCHANGED <<pc, processes, pIdx, is_active, pid, connections, cIdx, ports, warned,
                   ssh_port, sshStatus, probed, priorPort>>
    /\ UNCHANGED <<netConns, ModuleCache, discovered, sawNone, procVars>> /\ SFrame

\* Sockets are opened and closed; a port that keeps its listener keeps its answer.
HostNetChange ==
    /\ \E tbl \in HostTables : \E sv \in ServicesOf(tbl) :
          /\ tbl # netConns
          /\ \A p \in Ports :
                (Listening(netConns, p) /\ Listening(tbl, p)) => sv[p] = service[p]
          /\ netConns' = tbl
          /\ service' = sv
    /\ steady' = [t \in Threads |-> StillAnswering(steady[t], service')]
    /\ UNCHANGED <<pc, processes, pIdx, is_active, pid, connections, cIdx, ports, warned,
                   ssh_port, sshStatus, probed, priorPort>>
    /\ UNCHANGED <<ModuleCache, discovered, sawNone, procVars>> /\ SFrame

SshStep(t) ==
    \/ SshCall(t)
    \/ SshdScan(t)
    \/ GetConns(t)
    \/ TestCache(t)
    \/ ReadCache(t)
    \/ ProbeStep(t)
    \/ DetectReturn(t)
    \/ WriteCache(t)
    \/ CountAndBuild(t)
    \/ SshReturn(t)

\* One request at a time: the calls of thread 1.
SshNextSeq ==
    \/ SshStep(1)
    \/ HostProcChange
    \/ HostServiceChange
    \/ HostNetChange

HostInit ==
    /\ procState \in [Pids -> {"running", "gone"}]
    /\ netConns \in HostTables
    /\ service \in ServicesOf(netConns)

\* The host while concurrent requests are watched: the processes stay, the
\* sockets stay, the programs behind them come and go.
HostInitConc ==
    /\ procState = [p \in Pids |-> "running"]
    /\ netConns \in HostTables
    /\ service \in ServicesOf(netConns)

\* Requests served by concurrent threads.
SshNextConc ==
    \/ \E t \in Threads : SshStep(t)
    \/ HostServiceChange

\* _detect_ssh_port_unpriveleged called on a filtered list, every port answering
\* in any of the ways a probe can meet.
DetectInit ==
    /\ netConns \in SeqsUpTo(ConnRecords, MaxConns)
    /\ service \in [Ports -> ResponseKinds]
    /\ procState = [p \in Pids |-> "running"]
    /\ ModuleCache = [ssh_port |-> None]
    /\ pc = [t \in Threads |-> IF t = 1 THEN "detect" ELSE "idle"]
    /\ processes = [t \in Threads |-> <<>>]
    /\ pIdx = [t \in Threads |-> 1]
    /\ is_active = [t \in Threads |-> FALSE]
    /\ pid = [t \in Threads |-> None]
    /\ connections = [t \in Threads |->
                         IF t = 1 THEN GetConnectionsListFiltered(netConns) ELSE <<>>]
    /\ cIdx = [t \in Threads |-> 1]
    /\ ports = [t \in Threads |-> {}]
    /\ warned = [t \in Threads |-> FALSE]
    /\ ssh_port = [t \in Threads |-> None]
    /\ sshStatus = [t \in Threads |-> SSHStatusDefault]
    /\ probed = [t \in Threads |-> <<>>]
    /\ priorPort = [t \in Threads |-> None]
    /\ steady = [t \in Threads |-> {}]
    /\ discovered = None
    /\ sawNone = FALSE

DetectNext ==
    \/ ProbeStep(1)
    \/ DetectReturn(1)

\* get_connections_list_filtered called on any table.
ConnsInit ==
    /\ netConns \in SeqsUpTo(ConnRecords, MaxConns)
    /\ service = [p \in Ports |-> "refused"]
    /\ procState = [p \in Pids |-> "running"]
    /\ ModuleCache = [ssh_port |-> None]
    /\ pc = [t \in Threads |-> IF t = 1 THEN "conns" ELSE "idle"]
    /\ processes = [t \in Threads |-> <<>>]
    /\ pIdx = [t \in Threads |-> 1]
    /\ is_active = [t \in Threads |-> FALSE]
    /\ pid = [t \in Threads |-> None]
    /\ connections = [t \in Threads |-> <<>>]
    /\ cIdx = [t \in Threads |-> 1]
    /\ ports = [t \in Threads |-> {}]
    /\ warned = [t \in Threads |-> FALSE]
    /\ ssh_port = [t \in Threads |-> None]
    /\ sshStatus = [t \in Threads |-> SSHStatusDefault]
    /\ probed = [t \in Threads |-> <<>>]
    /\ priorPort = [t \in Threads |-> None]
    /\ steady = [t \in Threads |-> {}]
    /\ discovered = None
    /\ sawNone = FALSE

ConnsNext == GetConns(1)

\* ------------------------------------------------------------ tmux.py

Pipe == <<"|">>
Newline == <<"\n">>

\* What a tmux command writes: its lines, each ended by "\n".
ListingText(ls) == IF ls = <<>> THEN <<>> ELSE Join(ls, Newline) \o Newline

\* Whether float(s) succeeds, for s made of digits, "." and other characters:
\* an optional sign, digits with at most one point and at least one digit.
IsFloat(s) ==
    LET b == IntBody(s)
        points == {i \in 1..Len(b) : b[i] = "."}
    IN /\ Cardinality(points) <= 1
       /\ Cardinality(points) < Len(b)
       /\ \A i \in 1..Len(b) : b[i] \in DigitSet \cup {"."}

\* float(s) for an s of digits only: the seconds of the timestamp.
FloatOf(s) == DigitsValue(IntBody(s))

\* datetime.now(), in seconds.
NowTime == 100

\* Lines of the session listing "#{session_name}|#{session_windows}|
\* #{session_created}|#{session_attached}": well-formed ones, with none, one and
\* two clients attached, with a window count or a creation time that is not a
\* number, and lines of 3, 5 and 1 fields and of none.
SessionLines ==
    {<<"a", "|", "2", "|", "1", "7", "|", "0">>,
     <<"b", "|", "2", "|", "1", "7", "|", "1">>,
     <<"c", "|", "1", "|", "1", "7", "|", "2">>,
     <<"a", "|", "x", "|", "1", "7", "|", "1">>,
     <<"a", "|", "2", "|", "x", "|", "0">>,
     <<"a", "|", "2", "|", "|", "1">>,
     <<"a", "|", "2", "|", "1", "7">>,
     <<"b", "|", "c", "|", "2", "|", "1", "7", "|", "1">>,
     <<"a">>,
     <<>>}

\* Lines of the client listing "#{session_name}|#{window_index}|#{pane_index}|
\* #{client_name}|#{client_termname}|#{client_created}": a well-formed one, one
\* of 5 and one of 7 fields, and one whose window index is not a number.
ClientLines ==
    {<<"a", "|", "0", "|", "1", "|", "p", "|", "x", "|", "1", "7">>,
     <<"b", "|", "1", "|", "0", "|", "q", "|", "x", "|", "1", "7">>,
     <<"a", "|", "0", "|", "1", "|", "p", "|", "x">>,
     <<"a", "|", "0", "|", "1", "|", "p", "|", "x", "|", "1", "7", "|", "z">>,
     <<"a", "|", "w", "|", "1", "|", "p", "|", "x", "|", "1", "7">>}

SessionListings == {ListingText(q) : q \in SeqsUpTo(SessionLines, MaxLines)}
ClientListings == {ListingText(q) : q \in SeqsUpTo(ClientLines, MaxLines)}

\* How `which tmux` can end: exit 0, exit 1, TimeoutExpired, FileNotFoundError.
WhichOutcomes == {"found", "missing", "timeout", "notfound"}

\* How a tmux command can end: it exits with a code and an output, or
\* subprocess.run raises TimeoutExpired or FileNotFoundError.
Exited(rc, stdout) == [kind |-> "exit", rc |-> rc, stdout |-> stdout]
Failed(kind) == [kind |-> kind, rc |-> 1, stdout |-> <<>>]
RunFailures == {Failed("timeout"), Failed("notfound")}

\* `tmux list-sessions`: a server with no session or with one, no server, and an
\* exit code 1 after a line was written.
PlainListing == <<"a", ":", " ", "2", "\n">>
ListOutcomes ==
    {Exited(rc, out) : rc \in {0, 1}, out \in {<<>>, PlainListing}} \cup RunFailures

SessionOutcomes ==
    {Exited(0, out) : out \in SessionListings} \cup {Exited(1, <<>>)} \cup RunFailures

ClientOutcomes ==
    {Exited(0, out) : out \in ClientListings} \cup {Exited(1, <<>>)} \cup RunFailures

\* Lines 49-58: _is_tmux_installed when `which tmux` ends with outcome.
IsTmuxInstalled(outcome) == outcome = "found"

\* functools.cache keeping only a result of True.
CacheStoreTrue(cache, result) == IF result THEN Some(result) ELSE cache

\* Line 46: functools.cache stores the value the function returned.
CacheStore(cache, result) == Some(result)

\* Lines 84-98: _run_tmux_command when the command ends with o.
RunTmuxCommand(o) ==
    IF o.kind # "exit" THEN None
    ELSE IF o.rc = 0 \/ Strip(o.stdout) # <<>> THEN Some(Strip(o.stdout))
    ELSE None

\* Lines 110-122: _session_list_succeeded when the command ends with o.
SessionListSucceeded(o) == o.kind = "exit" /\ o.rc = 0

\* `if not output`: None and "" are falsy.
NoOutput(output) == output = None \/ Get(output) = <<>>

\* KeepLine taking a line with more fields too.
KeepLineAtLeast(ln, n) == ln # <<>> /\ Len(Split(ln, Pipe)) >= n

\* Lines 140-145 and 190-195: the line is not empty and has n fields.
KeepLine(ln, n) == ln # <<>> /\ Len(Split(ln, Pipe)) = n

\* Lines 197-206: the TmuxClient of a kept line; exc when int() raises.
ParseClientLine(ln) ==
    LET f == Split(ln, Pipe)
    IN IF IsInt(f[2]) /\ IsInt(f[3])
       THEN [exc |-> "none",
             client |-> [session_name |-> f[1], window_index |-> IntOf(f[2]),
                         pane_index |-> IntOf(f[3]), client_name |-> f[4],
                         terminal |-> f[5], created |-> f[6]]]
       ELSE [exc |-> "ValueError", client |-> <<>>]

RECURSIVE ParseClientLines(_, _)
ParseClientLines(ls, acc) ==
    IF ls = <<>> \/ acc.exc # "none" THEN acc
    ELSE IF ~KeepLine(Head(ls), 6) THEN ParseClientLines(Tail(ls), acc)
    ELSE LET r == ParseClientLine(Head(ls))
         IN IF r.exc # "none" THEN [acc EXCEPT !.exc = r.exc]
            ELSE ParseClientLines(Tail(ls), [acc EXCEPT !.clients = Append(@, r.client)])

\* Lines 186-208 and 222-244: the clients of a listing output, or the exception.
ParseClients(output) ==
    IF NoOutput(output) THEN [exc |-> "none", clients |-> <<>>]
    ELSE ParseClientLines(Split(Get(output), Newline), [exc |-> "none", clients |-> <<>>])

\* The number of "|"-separated fields of a line.
RECURSIVE FieldCount(_)
FieldCount(ln) ==
    IF ln = <<>> THEN 1
    ELSE (IF Head(ln) = "|" THEN 1 ELSE 0) + FieldCount(Tail(ln))

\* The text before the first "|" and the text after the last one.
RECURSIVE FirstField(_)
FirstField(ln) ==
    IF ln = <<>> \/ Head(ln) = "|" THEN <<>> ELSE <<Head(ln)>> \o FirstField(Tail(ln))

RECURSIVE LastField(_)
LastField(ln) ==
    IF ln = <<>> \/ ln[Len(ln)] = "|" THEN <<>>
    ELSE LastField(SubSeq(ln, 1, Len(ln) - 1)) \o <<ln[Len(ln)]>>

FourFields(ln) == FieldCount(ln) = 4
SixFields(ln) == FieldCount(ln) = 6

\* The lines with 6 fields of what a client listing command gave.
SixFieldLines(output) ==
    IF output = None THEN 0
    ELSE Len(SelectSeq(Split(Get(output), Newline), SixFields))

\* ---- _get_tmux_server_pid (lines 61-81)

TmuxText == <<"t", "m", "u", "x">>
BashText == <<"b", "a", "s", "h">>
AttachText == <<"a", "t", "t", "a", "c", "h">>
NewText == <<"n", "e", "w">>
NewSessionText == <<"n", "e", "w", "-", "s", "e", "s", "s", "i", "o", "n">>
Space == <<" ">>

\* Line 74: the commands that mark a client.
ClientCommands == {AttachText, NewSessionText, NewText}

\* The processes of a host, by proc.info['name'] and proc.info['cmdline']: a
\* shell, `tmux`, `tmux attach`, `tmux attach -t a`, `tmux new -s a`, and a tmux
\* process whose command line is empty (a zombie, or one that may not be read).
ProcShell == [name |-> BashText, cmdline |-> <<BashText>>]
ProcTmux == [name |-> TmuxText, cmdline |-> <<TmuxText>>]
ProcTmuxAttach == [name |-> TmuxText, cmdline |-> <<TmuxText, AttachText>>]
ProcTmuxAttachTo ==
    [name |-> TmuxText, cmdline |-> <<TmuxText, AttachText, <<"-", "t">>, <<"a">>>>]
ProcTmuxNew == [name |-> TmuxText, cmdline |-> <<TmuxText, NewText, <<"-", "s">>, <<"a">>>>]
ProcTmuxNoCmdline == [name |-> TmuxText, cmdline |-> <<>>]
ProcKinds == {ProcShell, ProcTmux, ProcTmuxAttach, ProcTmuxAttachTo, ProcTmuxNew,
              ProcTmuxNoCmdline}

\* Lines 66-78: whether the loop returns the pid of this process.
IsServer(proc) ==
    /\ proc.name # <<>> /\ Contains(proc.name, TmuxText)
    /\ proc.cmdline # <<>>
    /\ LET cmdline_str == Join(proc.cmdline, Space)
       IN \/ ~\E cmd \in ClientCommands : Contains(cmdline_str, cmd)
          \/ Len(proc.cmdline) <= 2

\* Lines 63-81: the loop over process_iter, which yields the processes by pid;
\* pid i is the i-th process of the table.
RECURSIVE ServerPidFrom(_, _)
ServerPidFrom(table, i) ==
    IF i > Len(table) THEN None
    ELSE IF IsServer(table[i]) THEN Some(i)
    ELSE ServerPidFrom(table, i + 1)

GetTmuxServerPid(table) == ServerPidFrom(table, 1)

\* The process tables a get_status call can meet.
StatusProcTables == {<<ProcShell>>, <<ProcShell, ProcTmux>>}

PidIdle ==
    /\ procTable = <<>>
    /\ spPc = "idle"
    /\ found_pid = None

\* The call on any table of up to MaxProcs processes.
PidInit ==
    /\ procTable \in SeqsUpTo(ProcKinds, MaxProcs)
    /\ spPc = "ready"
    /\ found_pid = None

\* _get_tmux_server_pid()
GetTmuxServerPidCall ==
    /\ spPc = "ready"
    /\ found_pid' = GetTmuxServerPid(procTable)
    /\ spPc' = "returned"
    /\ UNCHANGED procTable
    /\ UNCHANGED <<fmtVars, recentVars, countVars, buildVars>> /\ UFrame

PidNext == GetTmuxServerPidCall

\* None of the functions above is being called.
UtilIdle == FmtIdle /\ RecentIdle /\ CountIdle /\ PidIdle /\ BuildIdle


TmuxStatusDefault ==
    [is_installed |-> FALSE, is_running |-> FALSE, server_pid |-> None, sessions |-> <<>>,
     total_clients |-> 0, error_message |-> None]

TmuxLocalsIdle ==
    /\ is_installed = FALSE
    /\ is_running = FALSE
    /\ listRuns = <<>>
    /\ tmuxCmds = 0
    /\ procScans = 0
    /\ sessLines = <<>>
    /\ lIdx = 1
    /\ sessions = <<>>
    /\ clientLog = <<>>
    /\ listedCounts = [all |-> 0, sess |-> <<>>]
    /\ total_clients = 0
    /\ server_pid = None
    /\ tmuxStatus = TmuxStatusDefault

\* The process has started: nothing is cached.
TmuxIdle ==
    /\ installed_cache = None
    /\ whichRuns = 0
    /\ firstOutcome = None
    /\ tCalls = 0
    /\ tPc = "idle"
    /\ tExc = "none"
    /\ TmuxLocalsIdle

TFrame == UNCHANGED <<gitVars, procVars, zombieVars, netVars, sshVars, repoVars, utilVars>>

\* get_status is called.
TmuxCall ==
    /\ tPc = "idle"
    /\ tCalls < MaxCalls
    /\ tCalls' = tCalls + 1
    /\ tPc' = "installed"
    /\ UNCHANGED <<installed_cache, whichRuns, firstOutcome, tExc, tmuxLocals>> /\ TFrame

\* TmuxIsInstalled going on to the liveness check whatever the result.
TmuxIsInstalledGoesOn ==
    /\ tPc = "installed"
    /\ \E outcome \in WhichOutcomes :
          LET hit == installed_cache # None
              result == IF hit THEN Get(installed_cache) ELSE IsTmuxInstalled(outcome)
          IN /\ is_installed' = result
             /\ installed_cache' = IF hit THEN installed_cache
                                   ELSE CacheStore(installed_cache, result)
             /\ whichRuns' = IF hit THEN whichRuns ELSE whichRuns + 1
             /\ firstOutcome' = IF firstOutcome = None /\ ~hit THEN Some(outcome)
                                ELSE firstOutcome
             /\ tPc' = "running"
             /\ UNCHANGED tmuxStatus
    /\ UNCHANGED <<tCalls, tExc, is_running, listRuns, tmuxCmds, procScans, sessLines, lIdx,
                   sessions, clientLog, listedCounts, total_clients, server_pid>>
    /\ TFrame

\* Lines 249-258: is_installed = _is_tmux_installed(), from the cache or by
\* running `which tmux`; when it is false the TmuxStatus is returned at once.
TmuxIsInstalled ==
    /\ tPc = "installed"
    /\ \E outcome \in WhichOutcomes :
          LET hit == installed_cache # None
              result == IF hit THEN Get(installed_cache) ELSE IsTmuxInstalled(outcome)
          IN /\ is_installed' = result
             /\ installed_cache' = IF hit THEN installed_cache
                                   ELSE CacheStore(installed_cache, result)
             /\ whichRuns' = IF hit THEN whichRuns ELSE whichRuns + 1
             /\ firstOutcome' = IF firstOutcome = None /\ ~hit THEN Some(outcome)
                                ELSE firstOutcome
             /\ IF result
                THEN tPc' = "running" /\ UNCHANGED tmuxStatus
                ELSE tPc' = "done" /\ tmuxStatus' = TmuxStatusDefault
    /\ UNCHANGED <<tCalls, tExc, is_running, listRuns, tmuxCmds, procScans, sessLines, lIdx,
                   sessions, clientLog, listedCounts, total_clients, server_pid>>
    /\ TFrame

\* TmuxIsRunning going on to the listings whatever the liveness check said.
TmuxIsRunningGoesOn ==
    /\ tPc = "running"
    /\ \E o1 \in ListOutcomes, o2 \in ListOutcomes :
          IF RunTmuxCommand(o1) # None
          THEN /\ is_running' = TRUE
               /\ listRuns' = <<o1>>
               /\ tmuxCmds' = tmuxCmds + 1
          ELSE /\ is_running' = SessionListSucceeded(o2)
               /\ listRuns' = <<o1, o2>>
               /\ tmuxCmds' = tmuxCmds + 2
    /\ tPc' = "sessions"
    /\ UNCHANGED <<installed_cache, whichRuns, firstOutcome, tCalls, tExc, is_installed,
                   procScans, sessLines, lIdx, sessions, clientLog, listedCounts,
                   total_clients, server_pid, tmuxStatus>>
    /\ TFrame

\* Lines 261 and 101-107: is_running = _is_tmux_running().  list-sessions is run
\* through _run_tmux_command and, when that gave None, once more by
\* _session_list_succeeded.
TmuxIsRunning ==
    /\ tPc = "running"
    /\ \E o1 \in ListOutcomes, o2 \in ListOutcomes :
          IF RunTmuxCommand(o1) # None
          THEN /\ is_running' = TRUE
               /\ listRuns' = <<o1>>
               /\ tmuxCmds' = tmuxCmds + 1
          ELSE /\ is_running' = SessionListSucceeded(o2)
               /\ listRuns' = <<o1, o2>>
               /\ tmuxCmds' = tmuxCmds + 2
    /\ tPc' = IF is_running' THEN "sessions" ELSE "build"
    /\ UNCHANGED <<installed_cache, whichRuns, firstOutcome, tCalls, tExc, is_installed,
                   procScans, sessLines, lIdx, sessions, clientLog, listedCounts, total_clients,
                   server_pid, tmuxStatus>>
    /\ TFrame

\* Lines 127-139: _get_sessions runs the session listing and splits its output.
TmuxSessionsRun ==
    /\ tPc = "sessions"
    /\ \E o \in SessionOutcomes :
          LET output == RunTmuxCommand(o)
          IN IF NoOutput(output)
             THEN /\ sessLines' = <<>>
                  /\ tPc' = "clients"
             ELSE /\ sessLines' = Split(Get(output), Newline)
                  /\ tPc' = "line"
    /\ lIdx' = 1
    /\ sessions' = <<>>
    /\ tmuxCmds' = tmuxCmds + 1
    /\ UNCHANGED <<installed_cache, whichRuns, firstOutcome, tCalls, tExc, is_installed,
                   is_running, listRuns, procScans, clientLog, listedCounts, total_clients, server_pid,
                   tmuxStatus>>
    /\ TFrame

\* Lines 139-169: one line of the session listing.  A line kept is unpacked;
\* float(created_str) and int(windows_str) raise ValueError on a field that is not
\* a number, and the clients of the session are listed in between.
TmuxSessionLine ==
    /\ tPc = "line"
    /\ lIdx <= Len(sessLines)
    /\ LET ln == sessLines[lIdx]
           f == Split(ln, Pipe)
       IN IF ~KeepLine(ln, 4)
          THEN /\ lIdx' = lIdx + 1
               /\ UNCHANGED <<tPc, tExc, sessions, tmuxCmds, listedCounts>>
          ELSE IF ~IsFloat(f[3])
          THEN /\ tPc' = "raised"
               /\ tExc' = "float"
               /\ UNCHANGED <<lIdx, sessions, tmuxCmds, listedCounts>>
          ELSE \E o \in ClientOutcomes :
                  LET output == RunTmuxCommand(o)
                      r == ParseClients(output)
                  IN /\ tmuxCmds' = tmuxCmds + 1
                     /\ IF r.exc # "none"
                        THEN /\ tPc' = "raised"
                             /\ tExc' = "clients"
                             /\ UNCHANGED <<lIdx, sessions, listedCounts>>
                        ELSE IF ~IsInt(f[2])
                        THEN /\ tPc' = "raised"
                             /\ tExc' = "int"
                             /\ UNCHANGED <<lIdx, sessions, listedCounts>>
                        ELSE /\ sessions' = Append(sessions,
                                    [name |-> f[1],
                                     windows |-> IntOf(f[2]),
                                     created |-> FormatTimedelta(
                                         TimedeltaOf(NowTime - FloatOf(f[3])), FALSE),
                                     attached |-> f[4] # <<"0">>,
                                     clients |-> r.clients])
                             /\ listedCounts' = [listedCounts EXCEPT
                                    !.sess = Append(@, SixFieldLines(output))]
                             /\ lIdx' = lIdx + 1
                             /\ UNCHANGED <<tPc, tExc>>
    /\ UNCHANGED <<installed_cache, whichRuns, firstOutcome, tCalls, is_installed,
                   is_running, listRuns, procScans, sessLines, clientLog, total_clients,
                   server_pid, tmuxStatus>>
    /\ TFrame

\* Line 171: the listing is read to its end.
TmuxSessionsReturn ==
    /\ tPc = "line"
    /\ lIdx > Len(sessLines)
    /\ tPc' = "clients"
    /\ UNCHANGED <<installed_cache, whichRuns, firstOutcome, tCalls, tExc, tmuxLocals>>
    /\ TFrame

\* The sum of the sizes of the client lists of the sessions.
RECURSIVE SumClients(_)
SumClients(ss) == IF ss = <<>> THEN 0 ELSE Len(Head(ss).clients) + SumClients(Tail(ss))

\* TmuxAllClients taking total_clients from the client lists of the sessions.
TmuxAllClientsOfSessions ==
    /\ tPc = "clients"
    /\ \E o \in ClientOutcomes :
          LET output == RunTmuxCommand(o)
              r == ParseClients(output)
          IN /\ IF r.exc # "none"
                THEN /\ tPc' = "raised"
                     /\ tExc' = "allclients"
                     /\ UNCHANGED <<total_clients, listedCounts>>
                ELSE /\ tPc' = "pid"
                     /\ total_clients' = SumClients(sessions)
                     /\ listedCounts' = [listedCounts EXCEPT !.all = SixFieldLines(output)]
                     /\ UNCHANGED tExc
    /\ tmuxCmds' = tmuxCmds + 1
    /\ UNCHANGED <<installed_cache, whichRuns, firstOutcome, tCalls, is_installed,
                   is_running, listRuns, procScans, sessLines, lIdx, sessions, clientLog,
                   server_pid, tmuxStatus>>
    /\ TFrame

\* Lines 270-271 and 211-244: the clients of all sessions are listed and counted.
TmuxAllClients ==
    /\ tPc = "clients"
    /\ \E o \in ClientOutcomes :
          LET output == RunTmuxCommand(o)
              r == ParseClients(output)
          IN /\ IF r.exc # "none"
                THEN /\ tPc' = "raised"
                     /\ tExc' = "allclients"
                     /\ UNCHANGED <<total_clients, listedCounts>>
                ELSE /\ tPc' = "pid"
                     /\ total_clients' = Len(r.clients)
                     /\ listedCounts' = [listedCounts EXCEPT !.all = SixFieldLines(output)]
                     /\ UNCHANGED tExc
    /\ tmuxCmds' = tmuxCmds + 1
    /\ UNCHANGED <<installed_cache, whichRuns, firstOutcome, tCalls, is_installed,
                   is_running, listRuns, procScans, sessLines, lIdx, sessions, clientLog,
                   server_pid, tmuxStatus>>
    /\ TFrame

\* Lines 211-244 (and 174-208): _get_all_clients called by itself; the listing and
\* what is made of it.
TmuxListClients ==
    /\ tPc = "idle"
    /\ \E o \in ClientOutcomes :
          LET output == RunTmuxCommand(o)
              r == ParseClients(output)
          IN /\ clientLog' = <<[output |-> output, result |-> r]>>
             /\ tExc' = IF r.exc # "none" THEN "allclients" ELSE "none"
    /\ tPc' = "listed"
    /\ tmuxCmds' = tmuxCmds + 1
    /\ UNCHANGED <<installed_cache, whichRuns, firstOutcome, tCalls, is_installed,
                   is_running, listRuns, procScans, sessLines, lIdx, sessions,
                   listedCounts, total_clients, server_pid, tmuxStatus>>
    /\ TFrame

\* Lines 273 and 61-81: the process table is scanned for the server.
TmuxServerPid ==
    /\ tPc = "pid"
    /\ \E table \in StatusProcTables : server_pid' = GetTmuxServerPid(table)
    /\ procScans' = procScans + 1
    /\ tPc' = "build"
    /\ UNCHANGED <<installed_cache, whichRuns, firstOutcome, tCalls, tExc, is_installed,
                   is_running, listRuns, tmuxCmds, sessLines, lIdx, sessions, clientLog, listedCounts,
                   total_clients, tmuxStatus>>
    /\ TFrame

\* Lines 275-282: the TmuxStatus of an installed tmux.
TmuxBuild ==
    /\ tPc = "build"
    /\ tmuxStatus' = [is_installed |-> is_installed, is_running |-> is_running,
                      server_pid |-> server_pid, sessions |-> sessions,
                      total_clients |-> total_clients, error_message |-> None]
    /\ tPc' = "done"
    /\ UNCHANGED <<installed_cache, whichRuns, firstOutcome, tCalls, tExc, is_installed,
                   is_running, listRuns, tmuxCmds, procScans, sessLines, lIdx, sessions,
                   clientLog, listedCounts, total_clients, server_pid>>
    /\ TFrame

\* The caller has the TmuxStatus (or the exception); the next call starts with
\* fresh locals and the same cache.
TmuxReturn ==
    /\ tPc \in {"done", "raised", "listed"}
    /\ tPc' = "idle"
    /\ tExc' = "none"
    /\ is_installed' = FALSE
    /\ is_running' = FALSE
    /\ listRuns' = <<>>
    /\ tmuxCmds' = 0
    /\ procScans' = 0
    /\ sessLines' = <<>>
    /\ lIdx' = 1
    /\ sessions' = <<>>
    /\ clientLog' = <<>>
    /\ listedCounts' = [all |-> 0, sess |-> <<>>]
    /\ total_clients' = 0
    /\ server_pid' = None
    /\ tmuxStatus' = TmuxStatusDefault
    /\ UNCHANGED <<installed_cache, whichRuns, firstOutcome, tCalls>>
    /\ TFrame

TmuxNext ==
    \/ TmuxCall
    \/ TmuxIsInstalled
    \/ TmuxIsRunning
    \/ TmuxSessionsRun
    \/ TmuxSessionLine
    \/ TmuxSessionsReturn
    \/ TmuxAllClients
    \/ TmuxListClients
    \/ TmuxServerPid
    \/ TmuxBuild
    \/ TmuxReturn

InitZombie == ProcInit /\ ZombieIdle /\ GitIdle /\ NetIdle /\ SshIdle /\ RepoIdle /\ TmuxIdle /\ UtilIdle

SpecZombie == InitZombie /\ [][ZombieNext]_vars

InitGit == GitInit /\ ProcIdle /\ ZombieIdle /\ NetIdle /\ SshIdle /\ RepoIdle /\ TmuxIdle /\ UtilIdle

InitSsh == HostInit /\ SshIdle /\ ZombieIdle /\ GitIdle /\ RepoIdle /\ TmuxIdle /\ UtilIdle

SpecSsh == InitSsh /\ [][SshNextSeq]_vars

InitSshConc == HostInitConc /\ SshIdle /\ ZombieIdle /\ GitIdle /\ RepoIdle /\ TmuxIdle /\ UtilIdle

SpecSshConc == InitSshConc /\ [][SshNextConc]_vars

InitDetect == DetectInit /\ ZombieIdle /\ GitIdle /\ RepoIdle /\ TmuxIdle /\ UtilIdle

SpecDetect == InitDetect /\ [][DetectNext]_vars

InitConns == ConnsInit /\ ZombieIdle /\ GitIdle /\ RepoIdle /\ TmuxIdle /\ UtilIdle

SpecConns == InitConns /\ [][ConnsNext]_vars

SpecGit == InitGit /\ [][GitNext]_vars

InitFind ==
    /\ FsInit /\ FindIdle /\ ScanIdle /\ GitIdle /\ ProcIdle /\ ZombieIdle /\ NetIdle
    /\ SshIdle /\ TmuxIdle /\ UtilIdle

SpecFind == InitFind /\ [][FindNext]_vars

InitScan == ScanInit /\ GitIdle /\ ProcIdle /\ ZombieIdle /\ NetIdle /\ SshIdle /\ TmuxIdle /\ UtilIdle

SpecScan == InitScan /\ [][ScanNext]_vars

InitTmux ==
    /\ TmuxIdle /\ RepoIdle /\ GitIdle /\ ProcIdle /\ ZombieIdle /\ NetIdle /\ SshIdle
    /\ UtilIdle

SpecTmux == InitTmux /\ [][TmuxNext]_vars

InitFmt ==
    /\ FmtInit /\ RecentIdle /\ CountIdle /\ PidIdle /\ BuildIdle /\ TmuxIdle /\ RepoIdle /\ GitIdle /\ ProcIdle /\ ZombieIdle /\ NetIdle
    /\ SshIdle

SpecFmt == InitFmt /\ [][FmtNext]_vars

InitBuild ==
    /\ BuildInit /\ PidIdle /\ FmtIdle /\ RecentIdle /\ CountIdle /\ TmuxIdle /\ RepoIdle
    /\ GitIdle /\ ProcIdle /\ ZombieIdle /\ NetIdle /\ SshIdle

SpecBuild == InitBuild /\ [][BuildNext]_vars

InitPid ==
    /\ PidInit /\ FmtIdle /\ RecentIdle /\ CountIdle /\ BuildIdle /\ TmuxIdle /\ RepoIdle /\ GitIdle
    /\ ProcIdle /\ ZombieIdle /\ NetIdle /\ SshIdle

SpecPid == InitPid /\ [][PidNext]_vars

InitCount ==
    /\ CountInit /\ FmtIdle /\ RecentIdle /\ PidIdle /\ BuildIdle /\ TmuxIdle /\ RepoIdle /\ GitIdle /\ ProcIdle
    /\ ZombieIdle /\ NetIdle /\ SshIdle

SpecCount == InitCount /\ [][CountNext]_vars

InitRecent ==
    /\ RecentInit /\ FmtIdle /\ CountIdle /\ PidIdle /\ BuildIdle /\ TmuxIdle /\ RepoIdle /\ GitIdle /\ ProcIdle /\ ZombieIdle
    /\ NetIdle /\ SshIdle

SpecRecent == InitRecent /\ [][RecentNext]_vars

\* ---- claims about get_ssh_status

IsListen(c) == c.status = "LISTEN"

\* The connections a call has probed, in the order of the probes.
ProbedConns(t) == [i \in 1..Len(probed[t]) |-> probed[t][i].conn]

\* C1: in a sequence of get_ssh_status calls, once a call has discovered a port
\* the cache holds that port for good, and every later call makes no socket
\* probe and returns that port, whatever the table and the daemon have become.
C1_CachedPortReused ==
    /\ discovered # None => ModuleCache.ssh_port = discovered
    /\ \A t \in Threads :
          priorPort[t] # None =>
              /\ probed[t] = <<>>
              /\ pc[t] = "done" => sshStatus[t].port = priorPort[t]

\* A later call has returned the cached port although that port no longer
\* answers with a banner and a listener is in the table the call read.
C1_Witness ==
    /\ pc[1] = "done"
    /\ priorPort[1] # None
    /\ sshStatus[1].port = priorPort[1]
    /\ ~ProbeHit(service[Get(priorPort[1])])
    /\ \E i \in 1..Len(connections[1]) : IsListen(connections[1][i])

\* C2: while no earlier call has found a port, a call that returns has probed
\* every LISTEN connection of its list again, and a port that answered with the
\* SSH banner from the start of the call on is among the ports found and a port
\* is reported.
C2_NoneNotCached ==
    \A t \in Threads :
        (pc[t] = "done" /\ priorPort[t] = None) =>
            /\ ProbedConns(t) = SelectSeq(connections[t], IsListen)
            /\ \A p \in steady[t] :
                  /\ p \in ports[t]
                  /\ sshStatus[t].port # None
                  /\ Get(sshStatus[t].port) \in ports[t]
            /\ ports[t] = {} => sshStatus[t].port = None

\* An earlier call returned no port, and this call probed again and reports the
\* port that answers now.
C2_Witness ==
    /\ sawNone
    /\ pc[1] = "done"
    /\ priorPort[1] = None
    /\ Len(probed[1]) = 2
    /\ steady[1] # {}
    /\ sshStatus[1].port = steady[1]

\* C3: after concurrent calls that all started with the cache empty have
\* finished, if one of them detected a port then the cache holds a detected port.
C3_LastSuccessfulWins ==
    ((\A t \in Threads : pc[t] = "done" /\ priorPort[t] = None)
        /\ (\E t \in Threads : ports[t] # {}))
    => /\ ModuleCache.ssh_port # None
       /\ Get(ModuleCache.ssh_port) \in UNION {ports[t] : t \in Threads}

\* C4: get_ssh_status never raises, whatever processes exit while it runs and
\* however the probes fail.
C4_SshStatusNeverRaises == \A t \in Threads : pc[t] # "raised"

\* ---- claims about _detect_ssh_port_unpriveleged

\* The answers that carry an SSH banner.
BannerKinds == {"ssh", "preamble"}

\* The ports whose probe yielded an SSH banner.
MatchingPorts(t) ==
    {probed[t][i].conn.port : i \in {j \in 1..Len(probed[t]) : probed[t][j].resp \in BannerKinds}}

\* C5: _detect_ssh_port_unpriveleged has probed exactly the LISTEN connections of
\* its input; it returns None when no probe yielded a banner, the port when one
\* port matched, and with two or more matching ports one of them, with the warning.
C5_DetectPort ==
    pc[1] = "write" =>
        /\ ProbedConns(1) = SelectSeq(connections[1], IsListen)
        /\ MatchingPorts(1) = {} => ssh_port[1] = None
        /\ Cardinality(MatchingPorts(1)) = 1 => ssh_port[1] = MatchingPorts(1)
        /\ Cardinality(MatchingPorts(1)) >= 2 =>
              /\ ssh_port[1] # None
              /\ ssh_port[1] \subseteq MatchingPorts(1)
              /\ warned[1]

\* Two ports answered with a banner, next to a connection that is not probed.
C5_Witness ==
    /\ pc[1] = "write"
    /\ Cardinality(MatchingPorts(1)) = 2
    /\ warned[1]
    /\ ssh_port[1] # None
    /\ Len(probed[1]) < Len(connections[1])

\* ---- claims about get_connections_list_filtered

\* How many times row r is in rows.
RECURSIVE CountOf(_, _)
CountOf(rows, r) ==
    IF rows = <<>> THEN 0
    ELSE (IF Head(rows) = r THEN 1 ELSE 0) + CountOf(Tail(rows), r)

\* (ip, port) of c is not after (ip, port) of d, addresses compared as text.
LaddrLeq(c, d) ==
    \/ StrLess(c.ip, d.ip)
    \/ c.ip = d.ip /\ c.port <= d.port

\* C6: get_connections_list_filtered returns exactly the rows of the table whose
\* status is not TIME_WAIT, each as often as the table has it, in ascending order
\* of (local ip, local port).
C6_FilteredSorted ==
    pc[1] = "test" =>
        /\ \A r \in ConnRecords :
              CountOf(connections[1], r) =
                  IF r.status = "TIME_WAIT" THEN 0 ELSE CountOf(netConns, r)
        /\ \A i \in 1..Len(connections[1]) - 1 :
              LaddrLeq(connections[1][i], connections[1][i + 1])

\* A table with a TIME_WAIT row and two rows in descending order has been
\* filtered.
C6_Witness ==
    /\ pc[1] = "test"
    /\ Len(netConns) = 3
    /\ Len(connections[1]) = 2
    /\ netConns[1].status # "TIME_WAIT"
    /\ netConns[3].status # "TIME_WAIT"
    /\ ~LaddrLeq(netConns[1], netConns[3])
    /\ connections[1] = <<netConns[3], netConns[1]>>

\* ---- claims about _get_git_status, _find_git_repos and scan_git_repos

NoChanges(st) == st.staged = 0 /\ st.modified = 0 /\ st.untracked = 0

\* C11: every GitStatus returned, on the success path and on the error paths,
\* has is_clean true exactly when staged, modified and untracked are all 0.
C11_CleanIffNoChanges ==
    \A i \in 1..Len(results) : results[i].is_clean <=> NoChanges(results[i])

\* C12: a status command that times out or exits nonzero makes _get_git_status
\* return, not raise, a GitStatus with the error set, ahead, behind and the three
\* counts 0, and the branch name that the branch command gave.
C12_StatusFailure ==
    /\ \A i \in 1..Len(cmdLog) :
          cmdLog[i].status \in {"timeout", "nonzero"} =>
              /\ i <= Len(results)
              /\ results[i].error # None
              /\ results[i].ahead = 0 /\ results[i].behind = 0
              /\ NoChanges(results[i])
              /\ results[i].branch = IF cmdLog[i].branch = "ok" THEN BranchMain ELSE Unknown
    /\ sPc = "raised" => cmdLog[Len(cmdLog)].status = "ok"

\* A repository whose status command exited nonzero and one whose status command
\* timed out, both after a branch command that named the branch.
C12_Witness ==
    /\ Len(results) >= 2
    /\ cmdLog[1].branch = "ok" /\ cmdLog[1].status = "nonzero"
    /\ cmdLog[2].branch = "ok" /\ cmdLog[2].status = "timeout"
    /\ results[1].branch = BranchMain /\ results[1].error # None
    /\ results[2].branch = BranchMain /\ results[2].error # None

\* C13: a branch command that fails in any way only makes the branch "unknown":
\* the status command is still run, and the error field stays empty when the
\* status command succeeds.
C13_BranchFailureOnlyUnknown ==
    \A i \in 1..Len(results) :
        cmdLog[i].branch # "ok" =>
            /\ results[i].branch = Unknown
            /\ cmdLog[i].status # "notrun"
            /\ cmdLog[i].status = "ok" => results[i].error = None

\* paths is in strictly ascending order.
AscendingPaths(paths) == \A i \in 1..Len(paths) - 1 : PathLess(paths[i], paths[i + 1])

\* C14: _find_git_repos returns, in ascending order, the directories that hold a
\* .git directory, and the empty list when a PermissionError was raised during
\* the walk.
C14_FindRepos ==
    fPc = "returned" =>
        IF permErr
        THEN repos = <<>>
        ELSE /\ AscendingPaths(repos)
             /\ {repos[i] : i \in 1..Len(repos)} = {d \in Dirs : fsKind[d] = "dir"}

\* The commands of repository i failed or timed out.
CommandsFailed(i) ==
    \/ cmdLog[i].branch \in {"timeout", "notfound"}
    \/ cmdLog[i].status \in {"timeout", "nonzero"}

\* C15: scan_git_repos returns one GitStatus per discovered repository, in the
\* order of discovery, and a repository whose commands failed has its own
\* GitStatus with the error set, at its place.
C15_OnePerRepo ==
    /\ \A i \in 1..Len(results) :
          /\ i <= Len(repos)
          /\ results[i].repo_path = repos[i]
          /\ CommandsFailed(i) => results[i].error # None
    /\ sPc = "returned" => Len(results) = Len(repos)

\* Three repositories, the second with a failed command between two that were
\* read.
C15_Witness ==
    /\ sPc = "returned"
    /\ Len(repos) = 3
    /\ CommandsFailed(2)
    /\ ~CommandsFailed(1) /\ results[1].error = None
    /\ ~CommandsFailed(3) /\ results[3].error = None
    /\ results[2].repo_path = repos[2]

\* ---- claims about tmux get_status

\* C16: when tmux is not installed, get_status returns at once the status of a
\* tmux that is absent, and has run no tmux command and no process scan.
C16_NotInstalled ==
    (tPc = "done" /\ ~is_installed) =>
        /\ tmuxStatus.is_installed = FALSE
        /\ tmuxStatus.is_running = FALSE
        /\ tmuxStatus.server_pid = None
        /\ tmuxStatus.sessions = <<>>
        /\ tmuxStatus.total_clients = 0
        /\ tmuxCmds = 0
        /\ procScans = 0

\* `which tmux` exited with 1 and the call has returned.
C16_Witness ==
    /\ tPc = "done"
    /\ ~is_installed
    /\ firstOutcome = Some("missing")
    /\ tmuxStatus.is_installed = FALSE
    /\ tmuxCmds = 0

\* C17: over a sequence of get_status calls `which tmux` is run at most once, and
\* every call uses the result of that run, also a false that came from a timeout
\* or from a command that could not be executed.
C17_InstalledMemoized ==
    /\ whichRuns <= 1
    /\ firstOutcome # None => installed_cache = Some(firstOutcome = Some("found"))
    /\ tPc \in {"running", "sessions", "line", "clients", "pid", "build", "done", "raised"}
          => is_installed = (firstOutcome = Some("found"))

\* The second call has returned not installed from the cache, after a first run
\* that timed out.
C17_Witness ==
    /\ tCalls = 2
    /\ tPc = "done"
    /\ firstOutcome = Some("timeout")
    /\ whichRuns = 1
    /\ ~is_installed
    /\ tmuxStatus.is_installed = FALSE

\* C18: _is_tmux_running is true exactly when a list-sessions command exited
\* with code 0, whatever it wrote.
C18_RunningIffExitZero ==
    listRuns # <<>> =>
        (is_running <=>
            \E i \in 1..Len(listRuns) : listRuns[i].kind = "exit" /\ listRuns[i].rc = 0)

\* ---- claims about the tmux listings

\* The lines of the session listing that the loop has gone through and kept.
KeptSessionLines == SelectSeq(SubSeq(sessLines, 1, lIdx - 1), FourFields)

\* The lines of the client listing read by itself.
ClientListingLines ==
    IF clientLog = <<>> \/ NoOutput(clientLog[1].output) THEN <<>>
    ELSE Split(Get(clientLog[1].output), Newline)

\* C19: the sessions are those of the lines with exactly 4 fields, the clients
\* those of the lines with exactly 6 fields, in the order of the lines; every
\* other line is skipped, and nothing is raised at such a line.
C19_FieldCount ==
    /\ Len(sessions) = Len(KeptSessionLines)
    /\ \A i \in 1..Len(sessions) : sessions[i].name = FirstField(KeptSessionLines[i])
    /\ tExc \in {"float", "int", "clients"} => FourFields(sessLines[lIdx])
    /\ clientLog # <<>> =>
          LET res == clientLog[1].result
              kept == SelectSeq(ClientListingLines, SixFields)
          IN IF res.exc = "none"
             THEN /\ Len(res.clients) = Len(kept)
                  /\ \A i \in 1..Len(kept) :
                        /\ res.clients[i].session_name = FirstField(kept[i])
                        /\ res.clients[i].created = LastField(kept[i])
             ELSE kept # <<>>

\* A session listing whose first line has 5 fields and is skipped and whose
\* second line is kept.
C19_Witness ==
    /\ tPc = "clients"
    /\ Len(sessLines) = 2
    /\ FieldCount(sessLines[1]) = 5
    /\ FourFields(sessLines[2])
    /\ Len(sessions) = 1
    /\ sessions[1].name = FirstField(sessLines[2])

\* C20: every line of the session listing with exactly 4 fields becomes a
\* TmuxSession whose attached flag is true exactly when the 4th field is not "0",
\* whatever the window count and the creation time are, and nothing is raised.
C20_SessionParsed ==
    /\ tExc \notin {"float", "int"}
    /\ \A i \in 1..Len(sessions) :
          i <= Len(KeptSessionLines) =>
              (sessions[i].attached <=> LastField(KeptSessionLines[i]) # <<"0">>)

\* ---- claims about format_timedelta

\* The fields of the duration, as the claim names them.
FmtDays == time_delta.days
FmtHours == time_delta.seconds \div 3600
FmtMinutes == (time_delta.seconds % 3600) \div 60
FmtSeconds == time_delta.seconds % 60

\* The parts of the text returned: what stands between the ", " separators.
FmtParts == IF fmtResult = <<>> THEN <<>> ELSE Split(fmtResult, CommaSpace)

\* Whether a part is the given value, a space, the unit's name and an "s"
\* exactly when the value is not 1.
IsPart(part, value, name) ==
    LET sp == Find(part, <<" ">>)
    IN /\ sp > 1
       /\ IsInt(SubSeq(part, 1, sp - 1))
       /\ IntOf(SubSeq(part, 1, sp - 1)) = value
       /\ SubSeq(part, sp + 1, Len(part)) = name \o (IF value = 1 THEN <<>> ELSE <<"s">>)

\* The units whose part the claim says is present, in the claimed order.
FmtExpected ==
    LET want == <<[on |-> FmtDays > 0, value |-> FmtDays, name |-> <<"d", "a", "y">>],
                  [on |-> FmtHours > 0 \/ FmtDays > 0, value |-> FmtHours,
                   name |-> <<"h", "o", "u", "r">>],
                  [on |-> FmtMinutes > 0 \/ FmtHours > 0 \/ FmtDays > 0,
                   value |-> FmtMinutes, name |-> <<"m", "i", "n", "u", "t", "e">>],
                  [on |-> incl_seconds, value |-> FmtSeconds,
                   name |-> <<"s", "e", "c", "o", "n", "d">>]>>
    IN SelectSeq(want, LAMBDA w : w.on)

OneDayOneHourOneMinute ==
    <<"1", " ", "d", "a", "y", ",", " ", "1", " ", "h", "o", "u", "r", ",", " ",
      "1", " ", "m", "i", "n", "u", "t", "e">>
ZeroMinutes == <<"0", " ", "m", "i", "n", "u", "t", "e", "s">>
ZeroMinutes45Seconds ==
    ZeroMinutes \o <<",", " ", "4", "5", " ", "s", "e", "c", "o", "n", "d", "s">>

\* C21: the text returned is the parts for days, hours, minutes and seconds in
\* that order joined by ", ", each present exactly under the claimed condition
\* and with an "s" exactly when its value is not 1; 90061 seconds without
\* seconds give "1 day, 1 hour, 1 minute", and the text is never "0 minutes".
C21_FormatTimedelta ==
    fmtPc = "returned" =>
        /\ Len(FmtParts) = Len(FmtExpected)
        /\ \A i \in 1..Len(FmtExpected) :
              IsPart(FmtParts[i], FmtExpected[i].value, FmtExpected[i].name)
        /\ (time_delta = TimedeltaOf(90061) /\ ~incl_seconds)
              => fmtResult = OneDayOneHourOneMinute
        /\ fmtResult # ZeroMinutes

\* 90061 seconds have been formatted without the seconds.
C21_Witness ==
    /\ fmtPc = "returned"
    /\ time_delta = TimedeltaOf(90061)
    /\ ~incl_seconds
    /\ fmtResult = OneDayOneHourOneMinute

\* C22: 45 seconds formatted with incl_seconds give "0 minutes, 45 seconds".
C22_ZeroMinutes45Seconds ==
    (fmtPc = "returned" /\ time_delta = TimedeltaOf(45) /\ incl_seconds)
        => fmtResult = ZeroMinutes45Seconds

FortyFiveSeconds == <<"4", "5", " ", "s", "e", "c", "o", "n", "d", "s">>

\* C22 as amended: 45 seconds formatted with incl_seconds give "45 seconds",
\* with no minutes part.
C22_Amended ==
    (fmtPc = "returned" /\ time_delta = TimedeltaOf(45) /\ incl_seconds)
        => fmtResult = FortyFiveSeconds

\* 45 seconds have been formatted with incl_seconds.
C22_Witness ==
    /\ fmtPc = "returned"
    /\ time_delta = [days |-> 0, seconds |-> 45]
    /\ incl_seconds
    /\ fmtResult = FortyFiveSeconds

\* ---- claims about get_recent_files

\* The directory a file is in, and whether a name on its path is hidden.
DirOf(path) == SubSeq(path, 1, Len(path) - 1)
HasHiddenName(path) == \E i \in 1..Len(path) : path[i][1] = "."

\* The files whose stat succeeded.
StatOk == statTried \ statFailed

\* C23: get_recent_files returns min(limit, n) entries, n the number of files
\* whose stat succeeded; with exclude_hidden no hidden file and no file under a
\* hidden directory is among them; the entries are files with the largest
\* modification times, newest first; a file whose stat failed is left out and
\* every other file of the directories walked is still there to be chosen.
C23_RecentFiles ==
    rPc = "done" =>
        LET n == Cardinality(StatOk)
            returned == {files[i].path : i \in 1..Len(files)}
        IN /\ Len(files) = (IF limit < n THEN limit ELSE n)
           /\ Cardinality(returned) = Len(files)
           /\ returned \subseteq StatOk
           /\ \A i \in 1..Len(files) : files[i].modified_time = mtimes[files[i].path]
           /\ \A i \in 1..(Len(files) - 1) :
                 files[i].modified_time >= files[i + 1].modified_time
           /\ \A f \in StatOk \ returned : \A i \in 1..Len(files) :
                 mtimes[f] <= files[i].modified_time
           /\ statTried = {f \in TreeFiles : /\ DirOf(f) \in listed
                                             /\ exclude_hidden => ~HasHiddenName(f)}
           /\ exclude_hidden => \A d \in listed : ~HasHiddenName(d)

\* Of four files with the stat of the newest failing, the two newest of the
\* other three are returned, newest first.
C23_Witness ==
    /\ rPc = "done"
    /\ ~exclude_hidden
    /\ limit = 2
    /\ statTried = TreeFiles
    /\ statFailed = {<<NameF>>}
    /\ mtimes[<<NameF>>] = 3
    /\ mtimes[<<NameD, NameG>>] = 1
    /\ files = <<FileInfo(<<NameH>>, 3), FileInfo(<<NameS, NameK>>, 2)>>

\* ---- claims about _get_ssh_connections

\* The positions of the rows of the list given that are established on the port.
SshRows == {i \in 1..Len(scConns) :
               scConns[i].port = scPort /\ scConns[i].status = "ESTABLISHED"}

\* The position of the k-th such row.
KthSshRow(k) == CHOOSE i \in SshRows : Cardinality({j \in SshRows : j < i}) = k - 1

\* C24: the keys of the dict returned are 1..n, n the number of rows established
\* on the port given, and key k maps to the k-th such row of the list; rows in
\* another state or on another port are not in it.
C24_SshConnections ==
    scPc = "returned" =>
        /\ DOMAIN ssh_conns = 1..Cardinality(SshRows)
        /\ \A k \in DOMAIN ssh_conns : ssh_conns[k] = scConns[KthSshRow(k)]

\* Of three rows the first and the third are established on port 22 and the
\* second listens on it.
C24_Witness ==
    /\ scPc = "returned"
    /\ scPort = 22
    /\ Len(scConns) = 3
    /\ scConns[1] = [ip |-> Ip10, port |-> 22, status |-> "ESTABLISHED"]
    /\ scConns[2] = [ip |-> Ip10, port |-> 22, status |-> "LISTEN"]
    /\ scConns[3] = [ip |-> Ip9, port |-> 22, status |-> "ESTABLISHED"]
    /\ DOMAIN ssh_conns = {1, 2}
    /\ ssh_conns[2] = scConns[3]

\* ---- claims about the SSHStatus returned

\* C27: in every SSHStatus returned active_connections is None exactly when port
\* is None, and is a dict when port is not None, whatever is_active is.
C27_ConnectionsIffPort ==
    \A t \in Threads :
        pc[t] = "done" =>
            /\ (sshStatus[t].active_connections = None) <=> (sshStatus[t].port = None)
            /\ sshStatus[t].port # None =>
                  \E n \in 0..MaxConns :
                      DOMAIN Get(sshStatus[t].active_connections) = 1..n

\* A call that found the port in the cache returns it, with the dict of the
\* connections, although no sshd process is running any more.
C27_Witness ==
    /\ pc[1] = "done"
    /\ ~sshStatus[1].is_active
    /\ priorPort[1] = Some(22)
    /\ sshStatus[1].port = Some(22)
    /\ sshStatus[1].active_connections # None

\* ---- claims about _get_tmux_server_pid

\* The command line of a process holds one of the client commands.
HasClientCommand(proc) ==
    LET line == Join(proc.cmdline, Space)
    IN Contains(line, AttachText) \/ Contains(line, NewText)
          \/ Contains(line, NewSessionText)

\* The tmux processes that no client command disqualifies, by position.
ServerCandidates ==
    {i \in 1..Len(procTable) :
        Contains(procTable[i].name, TmuxText) /\ ~HasClientCommand(procTable[i])}

\* C25: the pid returned is never that of a tmux process whose command line
\* holds "attach", "new" or "new-session", however many tokens it has; it is the
\* pid of the first tmux process not so disqualified, or None.
C25_ServerPid ==
    spPc = "returned" =>
        /\ found_pid # None => ~HasClientCommand(procTable[Get(found_pid)])
        /\ IF ServerCandidates = {} THEN found_pid = None
           ELSE found_pid =
                    Some(CHOOSE i \in ServerCandidates : \A j \in ServerCandidates : i <= j)

\* ---- claims about build_server_list

\* C26: no ServerInfo of the list returned has a pid that is in ignore_pids, and
\* the list has at most one ServerInfo per (ip, port).
C26_IgnoredPids ==
    bPc = "done" =>
        /\ \A i \in 1..Len(servers) :
              servers[i].pid # None =>
                  ~\E k \in 1..Len(IgnoreList(ignore_pids)) :
                      IgnoreList(ignore_pids)[k] = Get(servers[i].pid)
        /\ \A i, j \in 1..Len(servers) :
              (servers[i].ip = servers[j].ip /\ servers[i].port = servers[j].port) => i = j

\* A status line that the claim says changes no counter: its index character is
\* none of M, A, D, R, C, its working-tree character is not M and it is not "??".
QuietLine(line) ==
    /\ line[1] \notin {"M", "A", "D", "R", "C"}
    /\ line[2] # "M"
    /\ ~(line[1] = "?" /\ line[2] = "?")

\* The other status lines of the text, in order.
LoudEntries == SelectSeq(gitEntries, LAMBDA line : ~QuietLine(line))

\* C28: the lines with no staged code, no working-tree M and no "??" change no
\* counter, so a text of a header and such lines is clean; when the other lines
\* are all "MM" each counts once as staged and once as modified, and when they
\* are all "??" each counts as untracked only.
C28_QuietLines ==
    gitPc = "returned" =>
        /\ LoudEntries = <<>> =>
              /\ gitStatus.staged = 0 /\ gitStatus.modified = 0 /\ gitStatus.untracked = 0
              /\ gitStatus.is_clean = TRUE
        /\ (\A i \in 1..Len(LoudEntries) : SubSeq(LoudEntries[i], 1, 2) = <<"M", "M">>) =>
              /\ gitStatus.staged = Len(LoudEntries)
              /\ gitStatus.modified = Len(LoudEntries)
              /\ gitStatus.untracked = 0
        /\ (\A i \in 1..Len(LoudEntries) : SubSeq(LoudEntries[i], 1, 2) = <<"?", "?">>) =>
              /\ gitStatus.untracked = Len(LoudEntries)
              /\ gitStatus.staged = 0 /\ gitStatus.modified = 0

\* A header, a working-tree deletion and an unmerged file have been parsed to a
\* clean status.
C28_Witness ==
    /\ gitPc = "returned"
    /\ gitHeader # <<>>
    /\ gitEntries = <<<<" ", "D", " ", "f">>, <<"U", "U", " ", "f">>>>
    /\ gitStatus.is_clean = TRUE

\* ---- claims about the TmuxStatus returned

\* C29: in every TmuxStatus returned is_running implies is_installed, and a
\* status that is not running has no sessions, no clients and no server pid; the
\* listings and the process scan are run only once the liveness check has said
\* that tmux is running.
C29_StatusConsistent ==
    /\ tPc = "done" =>
          /\ tmuxStatus.is_running => tmuxStatus.is_installed
          /\ ~tmuxStatus.is_running =>
                /\ tmuxStatus.sessions = <<>>
                /\ tmuxStatus.total_clients = 0
                /\ tmuxStatus.server_pid = None
    /\ (tPc # "listed" /\ (tmuxCmds > Len(listRuns) \/ procScans > 0))
          => (is_installed /\ is_running)
    /\ tPc \in {"sessions", "line", "clients", "pid"} => is_running

\* tmux is installed, both list-sessions commands of the liveness check failed,
\* and the status returned is that of a tmux that is not running.
C29_Witness ==
    /\ tPc = "done"
    /\ tmuxStatus.is_installed
    /\ ~tmuxStatus.is_running
    /\ Len(listRuns) = 2
    /\ tmuxCmds = 2
    /\ procScans = 0
    /\ tmuxStatus.sessions = <<>>

\* C30: total_clients is the number of 6-field lines of the unfiltered client
\* listing, which is run after the session loop, and the clients of each session
\* are those of the listing run for that session; the two are separate commands.
C30_TotalClients ==
    /\ Len(listedCounts.sess) = Len(sessions)
    /\ \A i \in 1..Len(sessions) : Len(sessions[i].clients) = listedCounts.sess[i]
    /\ tPc \in {"pid", "build"} => total_clients = listedCounts.all
    /\ (tPc = "done" /\ tmuxStatus.is_running) =>
          /\ tmuxStatus.total_clients = listedCounts.all
          /\ tmuxStatus.sessions = sessions
    /\ tPc \in {"sessions", "line", "clients"} => listedCounts.all = 0

\* A status whose only session is attached and has no client, while
\* total_clients, from the later listing, is 1: not the sum of the client lists.
C30_Witness ==
    /\ tPc = "done"
    /\ Len(tmuxStatus.sessions) = 1
    /\ tmuxStatus.sessions[1].attached
    /\ tmuxStatus.sessions[1].clients = <<>>
    /\ tmuxStatus.total_clients = 1
    /\ listedCounts.all = 1

\* ---- claims about get_zombie_processes

\* C7: the zombie scan never raises, whatever processes exit while it runs.
C7_ZombieScanNeverRaises == zPc # "raised"

RECURSIVE InfosOfOk(_)
InfosOfOk(log) ==
    IF log = <<>> THEN <<>>
    ELSE (IF Head(log).read = "ok"
          THEN <<[name |-> ProcName(Head(log).pid), user |-> "root",
                  create_time |-> Head(log).pid]>>
          ELSE <<>>) \o InfosOfOk(Tail(log))

\* C8: when get_zombie_processes returns, its list holds one ZombieInfo for exactly
\* the processes that were zombie at the status check and whose metadata read
\* succeeded, in enumeration order (ascending position in the enumeration); a zombie
\* whose read failed has no entry, and the entries of the others keep their order.
C8_ZombieList ==
    zPc = "done" =>
        /\ zombies = InfosOfOk(zLog)
        /\ \A i, j \in 1..Len(zLog) : i < j => zLog[i].pid < zLog[j].pid
        /\ \A i \in 1..Len(zLog) : \E k \in 1..Len(zPids) : zPids[k] = zLog[i].pid

\* A scan has returned in which a zombie's metadata read failed and a zombie met
\* before it and one met after it are listed.
C8_Witness ==
    /\ zPc = "done"
    /\ Len(zLog) = 3
    /\ zLog[1].read = "ok" /\ zLog[2].read # "ok" /\ zLog[3].read = "ok"
    /\ Len(zombies) = 2

\* ---- claims about _parse_git_status

ExampleHeader == HeaderMark \o BranchMain \o Dots \o Origin \o BranchMain \o TrackBoth
ExampleEntries == <<LineStagedFile, LineNewFile>>

StagedEntries == {i \in 1..Len(gitEntries) : gitEntries[i][1] \in StagedCodes}
ModifiedEntries == {i \in 1..Len(gitEntries) : gitEntries[i][2] = "M"}
UntrackedEntries ==
    {i \in 1..Len(gitEntries) : gitEntries[i][1] = "?" /\ gitEntries[i][2] = "?"}

\* C9: whenever _parse_git_status returns, staged is the number of status lines
\* whose first character is in {M,A,D,R,C}, modified the number whose second
\* character is M, untracked the number beginning with "??"; the text
\* "## main...origin/main [ahead 2, behind 1]\nM  file.txt\n?? new.txt\n" is parsed
\* to ahead=2, behind=1, staged=1, modified=0, untracked=1, is_clean=false, and the
\* empty text to all counters 0 and is_clean=true.
C9_StatusCounts ==
    /\ gitPc = "returned" =>
          /\ gitStatus.staged = Cardinality(StagedEntries)
          /\ gitStatus.modified = Cardinality(ModifiedEntries)
          /\ gitStatus.untracked = Cardinality(UntrackedEntries)
    /\ (gitPc # "ready" /\ gitHeader = ExampleHeader /\ gitEntries = ExampleEntries) =>
          /\ gitPc = "returned"
          /\ gitStatus.ahead = 2 /\ gitStatus.behind = 1
          /\ gitStatus.staged = 1 /\ gitStatus.modified = 0 /\ gitStatus.untracked = 1
          /\ gitStatus.is_clean = FALSE
    /\ (gitPc # "ready" /\ status_output = <<>>) =>
          /\ gitPc = "returned"
          /\ gitStatus.ahead = 0 /\ gitStatus.behind = 0
          /\ gitStatus.staged = 0 /\ gitStatus.modified = 0 /\ gitStatus.untracked = 0
          /\ gitStatus.is_clean = TRUE

\* The documented example has been parsed.
C9_Witness ==
    /\ gitPc = "returned"
    /\ gitHeader = ExampleHeader
    /\ gitEntries = ExampleEntries
    /\ gitStatus.staged = 1 /\ gitStatus.untracked = 1

\* The digits that follow the first occurrence of `lit` in `line`, up to the next
\* "]" or ",".
TextAfter(line, lit) ==
    LET from == Find(line, lit) + Len(lit)
        rest == SubSeq(line, from, Len(line))
        stops == {i \in 1..Len(rest) : rest[i] \in {"]", ","}}
    IN IF stops = {} THEN rest
       ELSE SubSeq(rest, 1, (CHOOSE i \in stops : \A j \in stops : i <= j) - 1)

\* C10: for every header line the parser does not raise; ahead is the number that
\* follows "[ahead " (0 when the line does not contain "[ahead "), and behind the
\* number that follows "behind " (0 when the line does not contain "behind ").
C10_HeaderNeverRaises ==
    (gitPc # "ready" /\ gitHeader # <<>>) =>
        /\ gitPc = "returned"
        /\ gitStatus.ahead = IF Contains(gitHeader, AheadSep)
                             THEN IntOf(TextAfter(gitHeader, AheadSep)) ELSE 0
        /\ gitStatus.behind = IF Contains(gitHeader, BehindSep)
                              THEN IntOf(TextAfter(gitHeader, BehindSep)) ELSE 0

====
